---- MODULE Spec2Model ----
(***************************************************************************)
(* Model of the speech-enhancement research code base:                     *)
(*   - utils/trainer.py: the generic Trainer (configuration operations and *)
(*     the train() loop, one action per statement group of the loop);      *)
(*   - datasets/noisy_librispeech/librispeech_dataset.py: random chunking  *)
(*     and noise mixing of NoisyLibreSpeechDataset;                        *)
(*   - models/wave_u_net.py: the shapes through WaveUNet.forward;          *)
(*   - utils/checkpoint.py: checkpoint files, named by character strings;  *)
(*   - utils/feature_loss.py: AudioFeatureLoss over a loss network;        *)
(*   - training/train_denoise.py: the denoiser training script;            *)
(*   - datasets/speech_evaluation/evaluate.py: pad_chunk;                  *)
(*   - datasets/scenes/tut_acoustic_scenes/scene_dataset.py: SceneDataset. *)
(* Tensors are modelled by their shape (a sequence of naturals) and, where *)
(* values matter, by small integers on a fixed-point grid.                 *)
(***************************************************************************)
EXTENDS Integers, Sequences, FiniteSets, TLC

(***************************************************************************)
(* Bounds of the model.                                                    *)
(***************************************************************************)
MaxEpochs == 2
MaxBatches == 2
MaxLossFns == 2
MaxMetricFns == 1

(***************************************************************************)
(* Python values.                                                          *)
(***************************************************************************)
\* None for a string-valued attribute, None for an int-valued attribute and
\* the marker of an attribute that was never assigned.
NoneStr == "<None>"
NoneInt == -1
Unset == "<unset>"

\* Python truthiness of a str-or-None and of an int-or-None value.
TruthyStr(s) == s \notin {NoneStr, ""}
TruthyInt(i) == i \notin {NoneInt, 0}

NoError == [kind |-> "none", expected |-> <<>>, got |-> <<>>]

\* Shapes of the batches a data loader can deliver and a net can return.
Shapes == {<<2, 2>>, <<2, 3>>}
\* Expected per-item shapes a caller can configure ([] means "not checked").
ExpectedShapes == {<<>>, <<2>>}
DataVals == {0}
\* What a loader delivers: the inputs (only their shape matters to the
\* Trainer) and the targets.
InputTensors == [shape : Shapes, val : {0}]
TargetTensors == [shape : Shapes, val : DataVals]
NoTensor == [shape |-> <<>>, val |-> 0]

\* Arguments the configuration operations are called with.
LossRegistrations == {<<"l1", 1>>, <<"mse", 2>>}
MetricRegistrations == {<<"l1", "loss">>, <<"mse", "MSE">>}
CheckpointNames == {"scene-net"}
CheckpointEpochs == {0, 1, 2}

(***************************************************************************)
(* State.                                                                  *)
(***************************************************************************)
VARIABLES
    pc,                 \* position of the Trainer: configured / train() steps
    checkpoint_epochs,  \* Trainer.checkpoint_epochs
    checkpoint_name,    \* Trainer.checkpoint_name
    loss_fns,           \* Trainer.loss_fns: sequence of <<fn, weight>>
    metric_fns,         \* Trainer.metric_fns: sequence of records
    use_wandb,          \* Trainer.use_wandb
    wandb_name,         \* Trainer.wandb_name (Unset until setup_wandb)
    input_shape, target_shape, output_shape,
    num_epochs, train_len, test_len,   \* arguments of train()
    epoch, batch,       \* loop variables of train()
    batch_size, inputs, targets, outputs, loss,  \* locals of train()
    params, grad,       \* the net: weight version and accumulated gradient
    ops,                \* calls made on net/optimizer, counted per kind
    checkpoints,        \* files written by checkpoint.save, in order
    training_info,      \* mapping handed to log_training_info
    nLogged,            \* number of calls of log_training_info
    err,                \* exception that ended train(), if any
    dpc,                \* NoisyLibreSpeechDataset: loading steps / ready
    clean_data,         \* NoisyLibreSpeechDataset.clean_data
    noise_data,         \* NoisyLibreSpeechDataset.noise_data
    nfiles,             \* files of the current folder read so far
    clean_chunk, noise_chunk, noisy_chunk, gain,   \* locals of __getitem__
    item,               \* the tuple returned by the last __getitem__
    outcome,            \* how the last __getitem__ ended
    w_pc,               \* WaveUNet.forward: idle / stage / done / error
    input_t,            \* shape <<batch, channels, length>> of the input
    acts,               \* shape of the current activations
    skip_connections,   \* shapes of the stored skip connections
    w_idx,              \* index of the next encoder / decoder
    w_err,              \* why forward raised, if it did
    clock,              \* int(time.time()): the current Unix second
    disk,               \* files under checkpoints/: path -> content
    live_net,           \* the net being trained and saved
    saves,              \* the calls of save / save_state_dict so far
    uploads,            \* paths handed to wandb.save
    loaded,             \* the last call of load and how it ended
    fl_pc,              \* position in AudioFeatureLoss.__call__
    predicted_audio,    \* argument of __call__
    target_audio,       \* argument of __call__
    heap,               \* the feature lists the loss net has allocated
    feature_layers,     \* loss_net.feature_layers: a reference into heap
    pred_feature_layers,    \* local of __call__: a reference into heap
    target_feature_layers,  \* local of __call__: a reference into heap
    fl_idx,             \* the loop index idx
    fl_loss,            \* loss[0], an exact fraction <<numerator, denominator>>
    fl_forwards,        \* forward passes of the loss net in this call
    fl_err,             \* why __call__ raised, if it did
    d_pc,               \* position in the train_denoise script
    d_epoch,            \* epoch
    d_batch,            \* batches of the current loader already handled
    d_train_len,        \* len(training_data_loader)
    d_val_len,          \* len(validation_data_loader)
    d_has_epoch,        \* whether the criterion linked in has an epoch() hook
    ckpt_params,        \* the parameter mapping stored in LOSS_NET_CHECKPOINT
    net_params,         \* parameters of net
    loss_net_params,    \* parameters of loss_net
    net_grad,           \* .grad of net's parameters
    loss_net_grad,      \* .grad of loss_net's parameters
    optimizer_params,   \* the parameters the optimizer was built over
    d_outputs,          \* outputs of the current batch
    d_loss,             \* loss of the current batch
    d_trackers,         \* the four MovingAverage trackers
    d_saved,            \* parameters of net at each save_checkpoint
    d_steps,            \* optimizer steps taken
    d_err,              \* the error the script ended with, if any
    e_pc,               \* position in pad_chunk
    input_arr,          \* the array pad_chunk is called with
    padded_arr,         \* the array pad_chunk returns
    s_pc,               \* position in SceneDataset.__init__
    wav_files,          \* number of .wav files in the data folder
    label_lookup,       \* file -> label, from meta.txt
    idx_to_label,       \* self.idx_to_label
    label_to_idx,       \* self.label_to_idx
    s_file,             \* files already handled
    mono_wav_arrs,      \* the two channels of the file being handled
    s_channel,          \* channels of that file already split
    label_idx,          \* label index of the file being handled
    s_data,             \* self.data
    s_data_labels,      \* self.data_labels
    s_read,             \* frames and label index of every file read so far
    s_err               \* the error construction ended with, if any

trainerVars == <<pc, checkpoint_epochs, checkpoint_name, loss_fns, metric_fns,
                 use_wandb, wandb_name, input_shape, target_shape, output_shape,
                 num_epochs, train_len, test_len, epoch, batch, batch_size,
                 inputs, targets, outputs, loss, params, grad, ops,
                 checkpoints, training_info, nLogged, err>>

selfVars == <<checkpoint_epochs, checkpoint_name, loss_fns, metric_fns,
              use_wandb, wandb_name, input_shape, target_shape, output_shape>>
argVars == <<num_epochs, train_len, test_len>>
localVars == <<batch_size, inputs, targets, outputs, loss>>

dataVars == <<dpc, clean_data, noise_data, nfiles, clean_chunk, noise_chunk,
              noisy_chunk, gain, item, outcome>>

netVars == <<w_pc, input_t, acts, skip_connections, w_idx, w_err>>

ckptVars == <<clock, disk, live_net, saves, uploads, loaded>>

\* The components modelled after the Trainer and the speech dataset.
lossVars == <<fl_pc, predicted_audio, target_audio, heap, feature_layers,
              pred_feature_layers, target_feature_layers, fl_idx, fl_loss,
              fl_forwards, fl_err>>

denoiseVars == <<d_pc, d_epoch, d_batch, d_train_len, d_val_len, d_has_epoch,
                 ckpt_params, net_params, loss_net_params, net_grad,
                 loss_net_grad, optimizer_params, d_outputs, d_loss, d_trackers,
                 d_saved, d_steps, d_err>>

evalVars == <<e_pc, input_arr, padded_arr>>

sceneVars == <<s_pc, wav_files, label_lookup, idx_to_label, label_to_idx, s_file,
               mono_wav_arrs, s_channel, label_idx, s_data, s_data_labels, s_read,
               s_err>>

moreVars == <<netVars, ckptVars, lossVars, denoiseVars, evalVars, sceneVars>>

(***************************************************************************)
(* MovingAverage(decay=0.8): value is the exact rational num / 5^(n-1)     *)
(* after n >= 1 updates; the first update sets the value to the sample.    *)
(***************************************************************************)
DecayNum == 4
DecayDen == 5

RECURSIVE Pow(_, _)
Pow(b, e) == IF e = 0 THEN 1 ELSE b * Pow(b, e - 1)

NewTracker == [n |-> 0, num |-> 0]

TrackerUpdate(t, v) ==
    IF t.n = 0
    THEN [n |-> 1, num |-> v]
    ELSE [n |-> t.n + 1,
          num |-> DecayNum * t.num + (DecayDen - DecayNum) * v * Pow(DecayDen, t.n - 1)]

RECURSIVE Reduce(_, _)
Reduce(num, den) ==
    IF den > 1 /\ num % DecayDen = 0
    THEN Reduce(num \div DecayDen, den \div DecayDen)
    ELSE <<num, den>>

\* MovingAverage.value as a fraction <<numerator, denominator>> in lowest terms.
TrackerValue(t) == IF t.n = 0 THEN <<0, 1>> ELSE Reduce(t.num, Pow(DecayDen, t.n - 1))

(***************************************************************************)
(* The net, the loss functions and the metric functions.                   *)
(***************************************************************************)
Abs(x) == IF x < 0 THEN -x ELSE x

\* net(inputs): the output value depends on the input and on the weights;
\* the output shape is whatever the architecture produces.
NetForward(p, x, outShape) == [shape |-> outShape, val |-> (x.val + p) % 2]

\* fn(inputs, outputs, targets) of a registered loss or metric function.
FnValue(fn, in, out, tg) ==
    IF fn = "l1" THEN Abs(out.val - tg.val)
    ELSE (out.val - tg.val) * (out.val - tg.val)

\* str.capitalize() on the metric names in use.
Capitalize(name) == IF name = "loss" THEN "Loss" ELSE "Mse"

\* for loss_fn, weight in self.loss_fns: loss = loss + weight * loss_fn(...)
RECURSIVE SumLosses(_, _, _, _, _)
SumLosses(fns, acc, in, out, tg) ==
    IF fns = <<>> THEN acc
    ELSE SumLosses(Tail(fns), acc + Head(fns)[2] * FnValue(Head(fns)[1], in, out, tg),
                   in, out, tg)

\* for metric_fn, _, train_tracker, _ in self.metric_fns: train_tracker.update(...)
UpdateTrainTrackers(ms, in, out, tg) ==
    [i \in DOMAIN ms |->
        [ms[i] EXCEPT !.train_tracker = TrackerUpdate(@, FnValue(ms[i].fn, in, out, tg))]]

\* for metric_fn, _, _, test_tracker in self.metric_fns: test_tracker.update(...)
UpdateTestTrackers(ms, in, out, tg) ==
    [i \in DOMAIN ms |->
        [ms[i] EXCEPT !.test_tracker = TrackerUpdate(@, FnValue(ms[i].fn, in, out, tg))]]

\* The dict built at the end of an epoch; a later metric of the same name
\* overwrites an earlier one.  Keys are <<"Training" | "Validation", Name>>.
RECURSIVE BuildTrainingInfo(_, _)
BuildTrainingInfo(ms, info) ==
    IF ms = <<>> THEN info
    ELSE LET m == Head(ms)
             keys == {<<"Training", m.name>>, <<"Validation", m.name>>}
             put == [k \in (DOMAIN info) \cup keys |->
                        IF k = <<"Training", m.name>> THEN TrackerValue(m.train_tracker)
                        ELSE IF k = <<"Validation", m.name>> THEN TrackerValue(m.train_tracker)
                        ELSE info[k]]
         IN BuildTrainingInfo(Tail(ms), put)

EmptyInfo == [k \in {} |-> <<0, 1>>]

OpKinds == {"zero_grad", "forward", "loss", "backward", "step", "eval_forward"}
Count(o, k) == [o EXCEPT ![k] = @ + 1]

(***************************************************************************)
(* Trainer.__init__ and the configuration operations.                      *)
(***************************************************************************)
TrainerInit ==
    /\ pc = "configured"
    /\ checkpoint_epochs = NoneInt
    /\ checkpoint_name = NoneStr
    /\ loss_fns = <<>>
    /\ metric_fns = <<>>
    /\ use_wandb = FALSE
    /\ wandb_name = Unset
    /\ input_shape = <<>>
    /\ target_shape = <<>>
    /\ output_shape = <<>>
    /\ num_epochs = 0
    /\ train_len = 0
    /\ test_len = 0
    /\ epoch = 0
    /\ batch = 0
    /\ batch_size = 0
    /\ inputs = NoTensor
    /\ targets = NoTensor
    /\ outputs = NoTensor
    /\ loss = 0
    /\ params = 0
    /\ grad = 0
    /\ ops = [k \in OpKinds |-> 0]
    /\ checkpoints = <<>>
    /\ training_info = EmptyInfo
    /\ nLogged = 0
    /\ err = NoError

setup_wandb ==
    /\ pc = "configured"
    /\ ~use_wandb
    /\ wandb_name' = "run"
    /\ use_wandb' = TRUE
    /\ UNCHANGED <<moreVars, dataVars, pc, checkpoint_epochs, checkpoint_name, loss_fns, metric_fns,
                   input_shape, target_shape, output_shape, argVars, epoch, batch,
                   localVars, params, grad, ops, checkpoints, training_info,
                   nLogged, err>>

setup_checkpoints ==
    /\ pc = "configured"
    /\ checkpoint_name = NoneStr /\ checkpoint_epochs = NoneInt
    /\ \E cn \in CheckpointNames, ce \in CheckpointEpochs :
          /\ checkpoint_name' = cn
          /\ checkpoint_epochs' = ce
    /\ UNCHANGED <<moreVars, dataVars, pc, loss_fns, metric_fns, use_wandb, wandb_name,
                   input_shape, target_shape, output_shape, argVars, epoch, batch,
                   localVars, params, grad, ops, checkpoints, training_info,
                   nLogged, err>>

register_loss_fn ==
    /\ pc = "configured"
    /\ Len(loss_fns) < MaxLossFns
    /\ \E r \in LossRegistrations :
          loss_fns' = Append(loss_fns, <<r[1], r[2]>>)
    /\ UNCHANGED <<moreVars, dataVars, pc, checkpoint_epochs, checkpoint_name, metric_fns, use_wandb,
                   wandb_name, input_shape, target_shape, output_shape, argVars,
                   epoch, batch, localVars, params, grad, ops, checkpoints,
                   training_info, nLogged, err>>

register_metric_fn ==
    /\ pc = "configured"
    /\ Len(metric_fns) < MaxMetricFns
    /\ \E r \in MetricRegistrations :
          metric_fns' = Append(metric_fns,
                               [fn |-> r[1], name |-> Capitalize(r[2]),
                                train_tracker |-> NewTracker,
                                test_tracker |-> NewTracker])
    /\ UNCHANGED <<moreVars, dataVars, pc, checkpoint_epochs, checkpoint_name, loss_fns, use_wandb,
                   wandb_name, input_shape, target_shape, output_shape, argVars,
                   epoch, batch, localVars, params, grad, ops, checkpoints,
                   training_info, nLogged, err>>

\* The expected shapes have no setter: a caller assigns the attributes.
set_expected_shapes ==
    /\ pc = "configured"
    /\ input_shape = <<>> /\ target_shape = <<>> /\ output_shape = <<>>
    /\ \E i \in ExpectedShapes, t \in ExpectedShapes, o \in ExpectedShapes :
          /\ <<i, t, o>> # <<<<>>, <<>>, <<>>>>
          /\ input_shape' = i
          /\ target_shape' = t
          /\ output_shape' = o
    /\ UNCHANGED <<moreVars, dataVars, pc, checkpoint_epochs, checkpoint_name, loss_fns, metric_fns,
                   use_wandb, wandb_name, argVars, epoch, batch, localVars, params,
                   grad, ops, checkpoints, training_info, nLogged, err>>

(***************************************************************************)
(* checkpoint.save as called by the Trainer: one more file on disk.        *)
(***************************************************************************)
SavedCheckpoint(kind, upload) ==
    [kind |-> kind, epoch |-> epoch, params |-> params,
     prefix |-> checkpoint_name, name |-> wandb_name, uploaded |-> upload]

ExpectedShape(bs, shape) == <<bs>> \o shape

Raise(kind, expected, got) ==
    /\ pc' = "error"
    /\ err' = [kind |-> kind, expected |-> expected, got |-> got]

(***************************************************************************)
(* Trainer.train, statement group by statement group.                      *)
(***************************************************************************)
train_call ==
    /\ pc = "configured"
    /\ \E e \in 0..MaxEpochs, b \in 0..MaxBatches, v \in 0..MaxBatches :
          /\ num_epochs' = e
          /\ train_len' = b
          /\ test_len' = v
    /\ epoch' = 0
    /\ pc' = "epoch_head"
    /\ UNCHANGED <<moreVars, dataVars, selfVars, batch, localVars, params, grad, ops, checkpoints,
                   training_info, nLogged, err>>

\* for epoch in range(num_epochs): periodic checkpoint, then net.train()
epoch_head ==
    /\ pc = "epoch_head"
    /\ LET is_checkpoint_epoch ==
               TruthyInt(checkpoint_epochs) /\ epoch % checkpoint_epochs = 0
       IN IF epoch >= num_epochs
          THEN /\ pc' = "final"
               /\ UNCHANGED <<checkpoints, err, batch>>
          ELSE IF TruthyStr(checkpoint_name) /\ is_checkpoint_epoch
          THEN IF wandb_name = Unset
               THEN /\ Raise("AttributeError", <<>>, <<>>)
                    /\ UNCHANGED <<checkpoints, batch>>
               ELSE /\ checkpoints' = Append(checkpoints, SavedCheckpoint("periodic", FALSE))
                    /\ pc' = "train_loop"
                    /\ batch' = 0
                    /\ UNCHANGED err
          ELSE /\ pc' = "train_loop"
               /\ batch' = 0
               /\ UNCHANGED <<checkpoints, err>>
    /\ UNCHANGED <<moreVars, dataVars, selfVars, argVars, epoch, localVars, params, grad, ops,
                   training_info, nLogged>>

\* train_loop as it would be if the train phase ended after the first batch.
train_loop_one_batch ==
    /\ pc = "train_loop"
    /\ IF batch < train_len /\ batch < 1
       THEN /\ \E i \in InputTensors, t \in TargetTensors :
                  /\ inputs' = i
                  /\ targets' = t
                  /\ batch_size' = i.shape[1]
            /\ pc' = "check_input"
            /\ UNCHANGED batch
       ELSE /\ pc' = "eval_loop"
            /\ batch' = 0
            /\ UNCHANGED <<inputs, targets, batch_size>>
    /\ UNCHANGED <<moreVars, dataVars, selfVars, argVars, epoch, outputs, loss, params, grad, ops,
                   checkpoints, training_info, nLogged, err>>

\* for inputs, targets in tqdm(train_loader): batch_size = inputs.shape[0]
train_loop ==
    /\ pc = "train_loop"
    /\ IF batch < train_len
       THEN /\ \E i \in InputTensors, t \in TargetTensors :
                  /\ inputs' = i
                  /\ targets' = t
                  /\ batch_size' = i.shape[1]
            /\ pc' = "check_input"
            /\ UNCHANGED batch
       ELSE /\ pc' = "eval_loop"
            /\ batch' = 0
            /\ UNCHANGED <<inputs, targets, batch_size>>
    /\ UNCHANGED <<moreVars, dataVars, selfVars, argVars, epoch, outputs, loss, params, grad, ops,
                   checkpoints, training_info, nLogged, err>>

check_input ==
    /\ pc = "check_input"
    /\ LET expected_shape == ExpectedShape(batch_size, input_shape)
       IN IF input_shape # <<>> /\ inputs.shape # expected_shape
          THEN Raise("AssertionError", expected_shape, inputs.shape)
          ELSE pc' = "check_target" /\ UNCHANGED err
    /\ UNCHANGED <<moreVars, dataVars, selfVars, argVars, epoch, batch, localVars, params, grad, ops,
                   checkpoints, training_info, nLogged>>

\* The assertion message of the target check reads the undefined name
\* `target`, so a failing check raises NameError while formatting it.
check_target ==
    /\ pc = "check_target"
    /\ LET expected_shape == ExpectedShape(batch_size, target_shape)
       IN IF target_shape # <<>> /\ targets.shape # expected_shape
          THEN Raise("NameError", <<>>, <<>>)
          ELSE pc' = "zero_grad" /\ UNCHANGED err
    /\ UNCHANGED <<moreVars, dataVars, selfVars, argVars, epoch, batch, localVars, params, grad, ops,
                   checkpoints, training_info, nLogged>>

\* zero_grad as it would be with the optimizer.zero_grad() call left out.
zero_grad_missing ==
    /\ pc = "zero_grad"
    /\ pc' = "forward"
    /\ UNCHANGED <<moreVars, dataVars, selfVars, argVars, epoch, batch, localVars, params,
                   grad, ops, checkpoints, training_info, nLogged, err>>

zero_grad ==
    /\ pc = "zero_grad"
    /\ grad' = 0
    /\ ops' = Count(ops, "zero_grad")
    /\ pc' = "forward"
    /\ UNCHANGED <<moreVars, dataVars, selfVars, argVars, epoch, batch, localVars, params,
                   checkpoints, training_info, nLogged, err>>

forward ==
    /\ pc = "forward"
    /\ \E s \in Shapes : outputs' = NetForward(params, inputs, s)
    /\ ops' = Count(ops, "forward")
    /\ pc' = "check_output"
    /\ UNCHANGED <<moreVars, dataVars, selfVars, argVars, epoch, batch, batch_size, inputs, targets,
                   loss, params, grad, checkpoints, training_info, nLogged, err>>

check_output ==
    /\ pc = "check_output"
    /\ LET expected_shape == ExpectedShape(batch_size, output_shape)
       IN IF output_shape # <<>> /\ outputs.shape # expected_shape
          THEN Raise("AssertionError", expected_shape, outputs.shape)
          ELSE pc' = "loss" /\ UNCHANGED err
    /\ UNCHANGED <<moreVars, dataVars, selfVars, argVars, epoch, batch, localVars, params, grad, ops,
                   checkpoints, training_info, nLogged>>

compute_loss ==
    /\ pc = "loss"
    /\ loss' = SumLosses(loss_fns, 0, inputs, outputs, targets)
    /\ ops' = Count(ops, "loss")
    /\ pc' = "backward"
    /\ UNCHANGED <<moreVars, dataVars, selfVars, argVars, epoch, batch, batch_size, inputs, targets,
                   outputs, params, grad, checkpoints, training_info, nLogged, err>>

\* loss.backward() accumulates into the gradients of the net.
backward ==
    /\ pc = "backward"
    /\ grad' = grad + loss
    /\ ops' = Count(ops, "backward")
    /\ pc' = "step"
    /\ UNCHANGED <<moreVars, dataVars, selfVars, argVars, epoch, batch, localVars, params,
                   checkpoints, training_info, nLogged, err>>

\* optimizer.step() produces the next version of the weights.
optimizer_step ==
    /\ pc = "step"
    /\ params' = params + 1
    /\ ops' = Count(ops, "step")
    /\ pc' = "train_metrics"
    /\ UNCHANGED <<moreVars, dataVars, selfVars, argVars, epoch, batch, localVars, grad,
                   checkpoints, training_info, nLogged, err>>

train_metrics ==
    /\ pc = "train_metrics"
    /\ metric_fns' = UpdateTrainTrackers(metric_fns, inputs, outputs, targets)
    /\ batch' = batch + 1
    /\ pc' = "train_loop"
    /\ UNCHANGED <<moreVars, dataVars, checkpoint_epochs, checkpoint_name, loss_fns, use_wandb,
                   wandb_name, input_shape, target_shape, output_shape, argVars,
                   epoch, localVars, params, grad, ops, checkpoints,
                   training_info, nLogged, err>>

\* net.eval(); with torch.no_grad(): for inputs, targets in tqdm(test_loader)
eval_loop ==
    /\ pc = "eval_loop"
    /\ IF batch < test_len
       THEN /\ \E i \in InputTensors, t \in TargetTensors :
                  /\ inputs' = i
                  /\ targets' = t
            /\ pc' = "eval_forward"
            /\ UNCHANGED batch
       ELSE /\ pc' = "log"
            /\ UNCHANGED <<inputs, targets, batch>>
    /\ UNCHANGED <<moreVars, dataVars, selfVars, argVars, epoch, batch_size, outputs, loss, params,
                   grad, ops, checkpoints, training_info, nLogged, err>>

eval_forward ==
    /\ pc = "eval_forward"
    /\ \E s \in Shapes : outputs' = NetForward(params, inputs, s)
    /\ ops' = Count(ops, "eval_forward")
    /\ pc' = "eval_metrics"
    /\ UNCHANGED <<moreVars, dataVars, selfVars, argVars, epoch, batch, batch_size, inputs, targets,
                   loss, params, grad, checkpoints, training_info, nLogged, err>>

\* eval_metrics as it would be if the validation loop also stepped the optimizer.
eval_metrics_stepping ==
    /\ pc = "eval_metrics"
    /\ metric_fns' = UpdateTestTrackers(metric_fns, inputs, outputs, targets)
    /\ params' = params + 1
    /\ ops' = Count(ops, "step")
    /\ batch' = batch + 1
    /\ pc' = "eval_loop"
    /\ UNCHANGED <<moreVars, dataVars, checkpoint_epochs, checkpoint_name, loss_fns, use_wandb,
                   wandb_name, input_shape, target_shape, output_shape, argVars,
                   epoch, localVars, grad, checkpoints, training_info, nLogged, err>>

eval_metrics ==
    /\ pc = "eval_metrics"
    /\ metric_fns' = UpdateTestTrackers(metric_fns, inputs, outputs, targets)
    /\ batch' = batch + 1
    /\ pc' = "eval_loop"
    /\ UNCHANGED <<moreVars, dataVars, checkpoint_epochs, checkpoint_name, loss_fns, use_wandb,
                   wandb_name, input_shape, target_shape, output_shape, argVars,
                   epoch, localVars, params, grad, ops, checkpoints,
                   training_info, nLogged, err>>

\* Log epoch metrics, then the next iteration of the epoch loop.
log_epoch ==
    /\ pc = "log"
    /\ training_info' = BuildTrainingInfo(metric_fns, EmptyInfo)
    /\ nLogged' = nLogged + 1
    /\ epoch' = epoch + 1
    /\ pc' = "epoch_head"
    /\ UNCHANGED <<moreVars, dataVars, selfVars, argVars, batch, localVars, params, grad, ops,
                   checkpoints, err>>

\* final_checkpoint as it would be with the final save left out.
final_checkpoint_skipped ==
    /\ pc = "final"
    /\ pc' = "done"
    /\ UNCHANGED <<moreVars, dataVars, selfVars, argVars, epoch, batch, localVars, params,
                   grad, ops, checkpoints, training_info, nLogged, err>>

\* Save final model checkpoint
final_checkpoint ==
    /\ pc = "final"
    /\ IF TruthyStr(checkpoint_name)
       THEN IF wandb_name = Unset
            THEN /\ Raise("AttributeError", <<>>, <<>>)
                 /\ UNCHANGED checkpoints
            ELSE /\ checkpoints' = Append(checkpoints, SavedCheckpoint("final", use_wandb))
                 /\ pc' = "done"
                 /\ UNCHANGED err
       ELSE /\ pc' = "done"
            /\ UNCHANGED <<checkpoints, err>>
    /\ UNCHANGED <<moreVars, dataVars, selfVars, argVars, epoch, batch, localVars, params, grad, ops,
                   training_info, nLogged>>

TrainerNext ==
    \/ setup_wandb
    \/ setup_checkpoints
    \/ register_loss_fn
    \/ register_metric_fn
    \/ set_expected_shapes
    \/ train_call
    \/ epoch_head
    \/ train_loop
    \/ check_input
    \/ check_target
    \/ zero_grad
    \/ forward
    \/ check_output
    \/ compute_loss
    \/ backward
    \/ optimizer_step
    \/ train_metrics
    \/ eval_loop
    \/ eval_forward
    \/ eval_metrics
    \/ log_epoch
    \/ final_checkpoint


(***************************************************************************)
(* NoisyLibreSpeechDataset.  Samples live on a fixed-point grid where      *)
(* Scale stands for the amplitude 1.0; AUDIO_LENGTH is scaled down.        *)
(***************************************************************************)
AUDIO_LENGTH == 3
MaxExtra == 2
MaxFiles == 1
Scale == 2
MinGain == 1
MaxGain == 10

Min(a, b) == IF a < b THEN a ELSE b
Max(a, b) == IF a > b THEN a ELSE b

\* One channel of a file: n frames alternating between two sample values.
ChannelData(n, a, b) == [i \in 1..n |-> IF i % 2 = 1 THEN a ELSE b]

Patterns == {<<1, -1>>, <<0, 1>>}
FrameCounts == (AUDIO_LENGTH - 1)..(AUDIO_LENGTH + MaxExtra)

\* What torchaudio.load can return for a file: a (channels, frames) tensor,
\* its sample rate and its dtype.
AudioFile(c, n, pat, rate, dtype) ==
    [channels |-> [k \in 1..c |-> IF k = 1 THEN ChannelData(n, pat[1], pat[2])
                                           ELSE ChannelData(n, pat[2], pat[1])],
     sample_rate |-> rate, dtype |-> dtype]

AudioFiles == {AudioFile(c, n, pat, rate, dtype) :
                  c \in 1..2, n \in FrameCounts, pat \in Patterns,
                  rate \in {16000, 8000}, dtype \in {"float32"}}

\* tensor.nelement() of a (channels, frames) tensor
NElement(f) == Len(f.channels) * Len(f.channels[1])

\* tensor.reshape(-1): the channels one after the other
RECURSIVE Flatten(_)
Flatten(chs) == IF chs = <<>> THEN <<>> ELSE Head(chs) \o Flatten(Tail(chs))

\* tensor[lo:hi] for 0 <= lo, in Python's clamping slice semantics
Slice(t, lo, hi) == SubSeq(t, lo + 1, Min(hi, Len(t)))

\* The offsets random.randint(0, size - chunk_width + 1) can draw.
ChunkStarts(size, chunk_width) == 0..(size - chunk_width + 1)

\* subsample_chunk_random for one drawn offset
SubsampleChunk(tensor, chunk_width, chunk_start) ==
    Slice(tensor, chunk_start, chunk_start + chunk_width)

\* Clip as it would be with the lower clamp left out.
ClipUpperOnly(x) == IF x > Scale THEN Scale ELSE x

\* noise_chunk[noise_chunk > 1] = 1; noise_chunk[noise_chunk < -1] = -1
Clip(x) == IF x > Scale THEN Scale ELSE IF x < -Scale THEN -Scale ELSE x

\* noise_chunk * gain, then clipped
ScaleAndClip(chunk, g) == [i \in DOMAIN chunk |-> Clip(chunk[i] * g)]

\* Elementwise addition of two 1-D tensors needs equal lengths, or one of
\* them of length 1, which is broadcast.
CanAdd(x, y) == Len(x) = Len(y) \/ Len(x) = 1 \/ Len(y) = 1
TensorAdd(x, y) ==
    [i \in 1..Max(Len(x), Len(y)) |->
        (IF Len(x) = 1 THEN x[1] ELSE x[i]) + (IF Len(y) = 1 THEN y[1] ELSE y[i])]

DataInit ==
    /\ dpc = "load_clean"
    /\ clean_data = <<>>
    /\ noise_data = <<>>
    /\ nfiles = 0
    /\ clean_chunk = <<>>
    /\ noise_chunk = <<>>
    /\ noisy_chunk = <<>>
    /\ gain = 0
    /\ item = <<>>
    /\ outcome = "none"

\* One iteration of the loop over the clean files, or the end of the loop.
load_clean ==
    /\ dpc = "load_clean"
    /\ \/ /\ nfiles < MaxFiles
          /\ \E f \in AudioFiles :
                IF NElement(f) < AUDIO_LENGTH
                THEN /\ nfiles' = nfiles + 1
                     /\ UNCHANGED <<dpc, clean_data, outcome>>
                ELSE IF f.sample_rate # 16000 \/ f.dtype # "float32"
                THEN /\ dpc' = "failed"
                     /\ outcome' = "AssertionError"
                     /\ UNCHANGED <<clean_data, nfiles>>
                ELSE /\ clean_data' = Append(clean_data, Flatten(f.channels))
                     /\ nfiles' = nfiles + 1
                     /\ UNCHANGED <<dpc, outcome>>
       \/ /\ dpc' = "load_noise"
          /\ nfiles' = 0
          /\ UNCHANGED <<clean_data, outcome>>
    /\ UNCHANGED <<moreVars, trainerVars, noise_data, clean_chunk, noise_chunk, noisy_chunk,
                   gain, item>>

\* One iteration of the loop over the noise files, or the end of the loop.
load_noise ==
    /\ dpc = "load_noise"
    /\ \/ /\ nfiles < MaxFiles
          /\ \E f \in AudioFiles :
                IF NElement(f) < AUDIO_LENGTH
                THEN /\ nfiles' = nfiles + 1
                     /\ UNCHANGED <<dpc, noise_data, outcome>>
                ELSE IF f.sample_rate # 16000 \/ f.dtype # "float32"
                THEN /\ dpc' = "failed"
                     /\ outcome' = "AssertionError"
                     /\ UNCHANGED <<noise_data, nfiles>>
                ELSE /\ noise_data' = Append(noise_data, f.channels[1])
                     /\ nfiles' = nfiles + 1
                     /\ UNCHANGED <<dpc, outcome>>
       \/ /\ dpc' = "ready"
          /\ nfiles' = 0
          /\ UNCHANGED <<noise_data, outcome>>
    /\ UNCHANGED <<moreVars, trainerVars, clean_data, clean_chunk, noise_chunk, noisy_chunk,
                   gain, item>>

\* NoisyLibreSpeechDataset.__getitem__(idx) for a valid index.
getitem ==
    /\ dpc = "ready"
    /\ \E idx \in DOMAIN clean_data :
          LET clean == clean_data[idx] IN
          IF noise_data = <<>>
          THEN \* random.choice of an empty list
               /\ outcome' = "IndexError"
               /\ clean_chunk' = <<>> /\ noise_chunk' = <<>> /\ noisy_chunk' = <<>>
               /\ gain' = 0 /\ item' = <<>>
          ELSE \E n \in DOMAIN noise_data :
               LET noise == noise_data[n] IN
               IF ~(AUDIO_LENGTH < Len(clean))
               THEN /\ outcome' = "AssertionError"
                    /\ clean_chunk' = <<>> /\ noise_chunk' = <<>> /\ noisy_chunk' = <<>>
                    /\ gain' = 0 /\ item' = <<>>
               ELSE \E cs \in ChunkStarts(Len(clean), AUDIO_LENGTH) :
                    LET cc == SubsampleChunk(clean, AUDIO_LENGTH, cs) IN
                    IF ~(AUDIO_LENGTH < Len(noise))
                    THEN /\ outcome' = "AssertionError"
                         /\ clean_chunk' = cc
                         /\ noise_chunk' = <<>> /\ noisy_chunk' = <<>>
                         /\ gain' = 0 /\ item' = <<>>
                    ELSE \E ns \in ChunkStarts(Len(noise), AUDIO_LENGTH), g \in MinGain..MaxGain :
                         LET nc == ScaleAndClip(SubsampleChunk(noise, AUDIO_LENGTH, ns), g) IN
                         /\ clean_chunk' = cc
                         /\ noise_chunk' = nc
                         /\ gain' = g
                         /\ IF CanAdd(cc, nc)
                            THEN /\ noisy_chunk' = TensorAdd(cc, nc)
                                 /\ item' = <<cc, TensorAdd(cc, nc)>>
                                 /\ outcome' = "returned"
                            ELSE /\ noisy_chunk' = <<>>
                                 /\ item' = <<>>
                                 /\ outcome' = "RuntimeError"
    /\ UNCHANGED <<moreVars, trainerVars, dpc, clean_data, noise_data, nfiles>>

DataNext ==
    \/ load_clean
    \/ load_noise
    \/ getitem


(***************************************************************************)
(* WaveUNet: the shape <<batch, channels, length>> of the activations      *)
(* through forward(), one action per stage.                                *)
(***************************************************************************)
NUM_C == 24
NUM_ENCODER_LAYERS == 12
MaxInputLen == 8192
MaxBatch == 2

ConvLayer(in_channels, out_channels, kernel) ==
    [in_channels |-> in_channels, out_channels |-> out_channels,
     kernel |-> kernel, padding |-> kernel \div 2]

\* self.encoders, self.middle, self.decoders, self.output of __init__
Encoders ==
    [k \in 1..NUM_ENCODER_LAYERS |->
        IF k = 1 THEN ConvLayer(1, NUM_C, 15)
        ELSE ConvLayer((k - 1) * NUM_C, k * NUM_C, 15)]

Middle == ConvLayer(12 * NUM_C, 13 * NUM_C, 15)

\* The decoders as they would be if declared without the skip's channels.
DecodersWithoutSkip ==
    [k \in 1..NUM_ENCODER_LAYERS |->
        LET i == NUM_ENCODER_LAYERS + 1 - k
        IN ConvLayer((i + 1) * NUM_C, i * NUM_C, 5)]

\* for i in reversed(range(1, NUM_ENCODER_LAYERS + 1)): the k-th decoder
\* appended (k from 1) has i = NUM_ENCODER_LAYERS + 1 - k.
Decoders ==
    [k \in 1..NUM_ENCODER_LAYERS |->
        LET i == NUM_ENCODER_LAYERS + 1 - k
        IN ConvLayer((2 * (i + 1) - 1) * NUM_C, i * NUM_C, 5)]

OutputLayer == ConvLayer(NUM_C + 1, 1, 1)

\* ConvOutLen as it would be for a convolution without padding.
ConvOutLenUnpadded(layer, l) == l - layer.kernel + 1

\* nn.Conv1d with stride 1: the temporal length after the convolution.
ConvOutLen(layer, l) == l + 2 * layer.padding - layer.kernel + 1

\* Conv1d accepts the input when its channel count is in_channels and the
\* padded input is at least as long as the kernel.
ConvAccepts(layer, shape) ==
    /\ shape[2] = layer.in_channels
    /\ shape[3] + 2 * layer.padding >= layer.kernel

ConvApply(layer, shape) == <<shape[1], layer.out_channels, ConvOutLen(layer, shape[3])>>

\* acts[:, :, ::2] keeps the elements at the even indices.
Decimate(shape) == <<shape[1], shape[2], (shape[3] + 1) \div 2>>

\* nn.Upsample(scale_factor=2, mode="linear")
Upsample(shape) == <<shape[1], shape[2], 2 * shape[3]>>

\* CanCat as it would be if the lengths were not compared.
CanCatAnyLength(a, b) == a[1] = b[1]

\* torch.cat((a, b), dim=1) needs equal sizes in every other dimension.
CanCat(a, b) == a[1] = b[1] /\ a[3] = b[3]
Cat(a, b) == <<a[1], a[2] + b[2], a[3]>>

\* list(reversed(skip_connections))[idx], idx from 0
ReversedSkip(skips, idx) == skips[Len(skips) - idx]

NetInit ==
    /\ w_pc = "idle"
    /\ input_t = <<>>
    /\ acts = <<>>
    /\ skip_connections = <<>>
    /\ w_idx = 0
    /\ w_err = "none"

NetFrame == UNCHANGED <<trainerVars, dataVars, ckptVars, lossVars, denoiseVars, evalVars, sceneVars>>

\* forward(input_t) is called: acts = input_t; skip_connections = []
forward_call ==
    /\ w_pc = "idle"
    /\ \E b \in 1..MaxBatch, c \in 1..2, l \in 1..MaxInputLen :
          /\ input_t' = <<b, c, l>>
          /\ acts' = <<b, c, l>>
    /\ skip_connections' = <<>>
    /\ w_idx' = 0
    /\ w_pc' = "encode"
    /\ UNCHANGED w_err
    /\ NetFrame

\* One iteration of the loop over self.encoders, or the end of the loop.
encode_stage ==
    /\ w_pc = "encode"
    /\ IF w_idx < Len(Encoders)
       THEN LET encoder == Encoders[w_idx + 1] IN
            IF ConvAccepts(encoder, acts)
            THEN /\ skip_connections' = Append(skip_connections, ConvApply(encoder, acts))
                 /\ acts' = Decimate(ConvApply(encoder, acts))
                 /\ w_idx' = w_idx + 1
                 /\ UNCHANGED <<w_pc, w_err>>
            ELSE /\ w_pc' = "error"
                 /\ w_err' = "conv"
                 /\ UNCHANGED <<acts, skip_connections, w_idx>>
       ELSE /\ w_pc' = "middle"
            /\ UNCHANGED <<acts, skip_connections, w_idx, w_err>>
    /\ UNCHANGED input_t
    /\ NetFrame

\* acts = self.middle(acts); skip_connections = list(reversed(...))
middle_stage ==
    /\ w_pc = "middle"
    /\ IF ConvAccepts(Middle, acts)
       THEN /\ acts' = ConvApply(Middle, acts)
            /\ w_pc' = "decode"
            /\ w_idx' = 0
            /\ UNCHANGED w_err
       ELSE /\ w_pc' = "error"
            /\ w_err' = "conv"
            /\ UNCHANGED <<acts, w_idx>>
    /\ UNCHANGED <<input_t, skip_connections>>
    /\ NetFrame

\* One iteration of the loop over self.decoders, or the end of the loop.
decode_stage ==
    /\ w_pc = "decode"
    /\ IF w_idx < Len(Decoders)
       THEN LET decoder == Decoders[w_idx + 1]
                up == Upsample(acts)
                skip == ReversedSkip(skip_connections, w_idx)
            IN IF ~CanCat(up, skip)
               THEN /\ w_pc' = "error"
                    /\ w_err' = "cat"
                    /\ acts' = up
                    /\ UNCHANGED w_idx
               ELSE IF ~ConvAccepts(decoder, Cat(up, skip))
               THEN /\ w_pc' = "error"
                    /\ w_err' = "conv"
                    /\ acts' = Cat(up, skip)
                    /\ UNCHANGED w_idx
               ELSE /\ acts' = ConvApply(decoder, Cat(up, skip))
                    /\ w_idx' = w_idx + 1
                    /\ UNCHANGED <<w_pc, w_err>>
       ELSE /\ w_pc' = "output"
            /\ UNCHANGED <<acts, w_idx, w_err>>
    /\ UNCHANGED <<input_t, skip_connections>>
    /\ NetFrame

\* acts = torch.cat((acts, input_t), dim=1); output_t = self.output(acts)
output_stage ==
    /\ w_pc = "output"
    /\ IF ~CanCat(acts, input_t)
       THEN /\ w_pc' = "error"
            /\ w_err' = "cat"
            /\ UNCHANGED acts
       ELSE IF ~ConvAccepts(OutputLayer, Cat(acts, input_t))
       THEN /\ w_pc' = "error"
            /\ w_err' = "conv"
            /\ acts' = Cat(acts, input_t)
       ELSE /\ acts' = ConvApply(OutputLayer, Cat(acts, input_t))
            /\ w_pc' = "done"
            /\ UNCHANGED w_err
    /\ UNCHANGED <<input_t, skip_connections, w_idx>>
    /\ NetFrame

NetNext ==
    \/ forward_call
    \/ encode_stage
    \/ middle_stage
    \/ decode_stage
    \/ output_stage


(***************************************************************************)
(* utils/checkpoint.py.  A Python str is a sequence of one-character       *)
(* strings; None is a value that is no such sequence.                      *)
(***************************************************************************)
MaxClock == 1
MaxVersion == 1
MaxSaves == 2

NoneName == <<"<None>">>
CHECKPOINT_DIR == <<"c", "h", "e", "c", "k", "p", "o", "i", "n", "t", "s">>
FULL_CKPT == <<"f", "u", "l", "l", ".", "c", "k", "p", "t">>
CKPT == <<"c", "k", "p", "t">>
ModelRequired == "A model is required for loading a state dict checkpoint."

DigitChars == <<"0", "1", "2", "3", "4", "5", "6", "7", "8", "9">>

\* str(n) for an int n >= 0
RECURSIVE IntStr(_)
IntStr(n) == IF n < 10 THEN <<DigitChars[n + 1]>>
             ELSE IntStr(n \div 10) \o <<DigitChars[(n % 10) + 1]>>

\* s.endswith(suffix)
EndsWith(str, suffix) ==
    /\ Len(str) >= Len(suffix)
    /\ SubSeq(str, Len(str) - Len(suffix) + 1, Len(str)) = suffix

\* os.path.join(CHECKPOINT_DIR, checkpoint_filename)
CheckpointPath(filename) == CHECKPOINT_DIR \o <<"/">> \o filename

\* get_checkpoint_filename as it would be if the name were always inserted.
get_checkpoint_filename_always_named(prefix, name, suffix, now) ==
    prefix \o <<"-">> \o (IF name = NoneName THEN <<>> ELSE name) \o <<"-">>
           \o IntStr(now) \o <<".">> \o suffix

\* get_checkpoint_filename at the Unix second `now`
get_checkpoint_filename(prefix, name, suffix, now) ==
    IF name \notin {NoneName, <<>>}
    THEN prefix \o <<"-">> \o name \o <<"-">> \o IntStr(now) \o <<".">> \o suffix
    ELSE prefix \o <<"-">> \o IntStr(now) \o <<".">> \o suffix

\* Arguments the checkpoint functions are called with.
Prefixes == {<<"n">>}
RunNames == {NoneName, <<>>, <<"r">>}
Archs == {"WaveUNet", "SceneNet"}
NoNet == [arch |-> "<None>", params |-> 0, device |-> "cpu"]
\* A freshly constructed model: initial weights, on the host.
FreshNet(arch) == [arch |-> arch, params |-> 0, device |-> "cpu"]
MissingFiles == {<<"n", "-", "7", ".">> \o CKPT}

NoLoad == [status |-> "none", filename |-> <<>>, given |-> NoNet, net |-> NoNet,
           message |-> ""]

\* net.cuda() if use_cuda else net.cpu()
OnDevice(net, use_cuda) == [net EXCEPT !.device = IF use_cuda THEN "cuda" ELSE "cpu"]

LoadResult(status, filename, given, net, message) ==
    [status |-> status, filename |-> filename, given |-> given, net |-> net,
     message |-> message]

\* load as it would be if the state dict were read but never applied.
LoadWithoutApplying(checkpoint_filename, net, use_cuda, files) ==
    LET checkpoint_path == CheckpointPath(checkpoint_filename) IN
    IF EndsWith(checkpoint_filename, FULL_CKPT)
    THEN IF checkpoint_path \notin DOMAIN files
         THEN LoadResult("FileNotFoundError", checkpoint_filename, net, NoNet, "")
         ELSE LoadResult("ok", checkpoint_filename, net,
                         OnDevice([arch |-> files[checkpoint_path].arch,
                                   params |-> files[checkpoint_path].params,
                                   device |-> "cpu"], use_cuda), "")
    ELSE IF net = NoNet
         THEN LoadResult("AssertionError", checkpoint_filename, net, NoNet, ModelRequired)
    ELSE IF checkpoint_path \notin DOMAIN files
         THEN LoadResult("FileNotFoundError", checkpoint_filename, net, NoNet, "")
    ELSE IF files[checkpoint_path].arch # net.arch
         THEN LoadResult("RuntimeError", checkpoint_filename, net, NoNet, "")
    ELSE LoadResult("ok", checkpoint_filename, net, OnDevice(net, use_cuda), "")

\* load as it would be if the file were read before the model is asserted.
LoadReadingFirst(checkpoint_filename, net, use_cuda, files) ==
    LET checkpoint_path == CheckpointPath(checkpoint_filename) IN
    IF checkpoint_path \notin DOMAIN files
    THEN LoadResult("FileNotFoundError", checkpoint_filename, net, NoNet, "")
    ELSE IF EndsWith(checkpoint_filename, FULL_CKPT)
    THEN LoadResult("ok", checkpoint_filename, net,
                    OnDevice([arch |-> files[checkpoint_path].arch,
                              params |-> files[checkpoint_path].params,
                              device |-> "cpu"], use_cuda), "")
    ELSE IF net = NoNet
         THEN LoadResult("AssertionError", checkpoint_filename, net, NoNet, ModelRequired)
    ELSE IF files[checkpoint_path].arch # net.arch
         THEN LoadResult("RuntimeError", checkpoint_filename, net, NoNet, "")
    ELSE LoadResult("ok", checkpoint_filename, net,
                    OnDevice([net EXCEPT !.params = files[checkpoint_path].params],
                             use_cuda), "")

\* load(checkpoint_filename, net, use_cuda) against the files on disk
Load(checkpoint_filename, net, use_cuda, files) ==
    LET checkpoint_path == CheckpointPath(checkpoint_filename) IN
    IF EndsWith(checkpoint_filename, FULL_CKPT)
    THEN \* net = torch.load(checkpoint_path)
         IF checkpoint_path \notin DOMAIN files
         THEN LoadResult("FileNotFoundError", checkpoint_filename, net, NoNet, "")
         ELSE LoadResult("ok", checkpoint_filename, net,
                         OnDevice([arch |-> files[checkpoint_path].arch,
                                   params |-> files[checkpoint_path].params,
                                   device |-> "cpu"], use_cuda), "")
    ELSE \* assert net; state_dict = torch.load(...); net.load_state_dict(state_dict)
         IF net = NoNet
         THEN LoadResult("AssertionError", checkpoint_filename, net, NoNet, ModelRequired)
    ELSE IF checkpoint_path \notin DOMAIN files
         THEN LoadResult("FileNotFoundError", checkpoint_filename, net, NoNet, "")
    ELSE IF files[checkpoint_path].arch # net.arch
         THEN LoadResult("RuntimeError", checkpoint_filename, net, NoNet, "")
    ELSE LoadResult("ok", checkpoint_filename, net,
                    OnDevice([net EXCEPT !.params = files[checkpoint_path].params],
                             use_cuda), "")

\* torch.save(content, path): the file is created or overwritten.
WriteFile(files, path, content) ==
    [f \in (DOMAIN files) \cup {path} |-> IF f = path THEN content ELSE files[f]]

CkptInit ==
    /\ clock = 0
    /\ disk = [f \in {} |-> NoNet]
    /\ live_net = FreshNet("WaveUNet")
    /\ saves = <<>>
    /\ uploads = {}
    /\ loaded = NoLoad

CkptFrame == UNCHANGED <<trainerVars, dataVars, netVars, lossVars, denoiseVars, evalVars, sceneVars>>

\* A second passes.
ck_tick ==
    /\ clock < MaxClock
    /\ clock' = clock + 1
    /\ UNCHANGED <<disk, live_net, saves, uploads, loaded>>
    /\ CkptFrame

\* The net is trained further between two saves.
ck_train ==
    /\ live_net.params < MaxVersion
    /\ live_net' = [live_net EXCEPT !.params = @ + 1]
    /\ UNCHANGED <<clock, disk, saves, uploads, loaded>>
    /\ CkptFrame

\* save(net, prefix, name, use_wandb): the full model
ck_save ==
    /\ Len(saves) < MaxSaves
    /\ \E prefix \in Prefixes, name \in RunNames, to_wandb \in BOOLEAN :
          LET checkpoint_filename == get_checkpoint_filename(prefix, name, FULL_CKPT, clock)
              checkpoint_path == CheckpointPath(checkpoint_filename)
          IN /\ disk' = WriteFile(disk, checkpoint_path,
                                  [kind |-> "model", arch |-> live_net.arch,
                                   params |-> live_net.params])
             /\ uploads' = IF to_wandb THEN uploads \cup {checkpoint_path} ELSE uploads
             /\ saves' = Append(saves, [fn |-> "save", prefix |-> prefix, name |-> name,
                                        filename |-> checkpoint_filename,
                                        path |-> checkpoint_path,
                                        params |-> live_net.params])
    /\ UNCHANGED <<clock, live_net, loaded>>
    /\ CkptFrame

\* save_state_dict(net, prefix, name, use_wandb): the parameter mapping
ck_save_state_dict ==
    /\ Len(saves) < MaxSaves
    /\ \E prefix \in Prefixes, name \in RunNames, to_wandb \in BOOLEAN :
          LET checkpoint_filename == get_checkpoint_filename(prefix, name, CKPT, clock)
              checkpoint_path == CheckpointPath(checkpoint_filename)
          IN /\ disk' = WriteFile(disk, checkpoint_path,
                                  [kind |-> "state_dict", arch |-> live_net.arch,
                                   params |-> live_net.params])
             /\ uploads' = IF to_wandb THEN uploads \cup {checkpoint_path} ELSE uploads
             /\ saves' = Append(saves, [fn |-> "save_state_dict", prefix |-> prefix,
                                        name |-> name,
                                        filename |-> checkpoint_filename,
                                        path |-> checkpoint_path,
                                        params |-> live_net.params])
    /\ UNCHANGED <<clock, live_net, loaded>>
    /\ CkptFrame

\* load(checkpoint_filename, net, use_cuda) with no model, or a fresh one
ck_load ==
    /\ \E filename \in {saves[i].filename : i \in DOMAIN saves} \cup MissingFiles,
          net \in {NoNet} \cup {FreshNet(a) : a \in Archs},
          use_cuda \in BOOLEAN :
          loaded' = Load(filename, net, use_cuda, disk)
    /\ UNCHANGED <<clock, disk, live_net, saves, uploads>>
    /\ CkptFrame

CkptNext ==
    \/ ck_tick
    \/ ck_train
    \/ ck_save
    \/ ck_save_state_dict
    \/ ck_load


(***************************************************************************)
(* utils/feature_loss.py.  A tensor is its shape and its elements in row   *)
(* order; a real number is an exact fraction <<numerator, denominator>>.   *)
(* The loss network is not part of the sources: its forward pass stores a  *)
(* newly allocated ordered list of 2-dimensional feature tensors in        *)
(* feature_layers.                                                         *)
(***************************************************************************)
MaxAudioLen == 2

LossBatchSizes == {1, 2}
SampleVals == {0, 1}

RECURSIVE Product(_)
Product(shape) == IF shape = <<>> THEN 1 ELSE Head(shape) * Product(Tail(shape))

RECURSIVE SeqSum(_)
SeqSum(q) == IF q = <<>> THEN 0 ELSE Head(q) + SeqSum(Tail(q))

\* Shapes of the tensors __call__ is given: (batch, length), and 1- and
\* 3-dimensional ones.
AudioShapes ==
    {<<b, l>> : b \in LossBatchSizes, l \in 1..MaxAudioLen}
        \cup {<<MaxAudioLen>>, <<1, 1, MaxAudioLen>>}

TensorsOf(shape) ==
    {[shape |-> shape, data |-> d] : d \in [1..Product(shape) -> SampleVals]}

AudioTensors == UNION {TensorsOf(sh) : sh \in AudioShapes}

NoAudio == [shape |-> <<0>>, data |-> <<>>]

\* t.view(batch_size, 1, -1)
View3(t, nbatch) ==
    [shape |-> <<nbatch, 1, Product(t.shape) \div nbatch>>, data |-> t.data]

\* The loss network's forward pass on x of shape (batch, 1, length): the
\* ordered feature tensors, one (batch, length) and one (batch, 1).
LossNetWeight == 2
LossNetFeatures(x) ==
    LET b == x.shape[1]
        l == x.shape[3]
    IN << [shape |-> <<b, l>>,
           data |-> [i \in 1..(b * l) |-> LossNetWeight * x.data[i]]],
          [shape |-> <<b, 1>>,
           data |-> [r \in 1..b |-> SeqSum(SubSeq(x.data, (r - 1) * l + 1, r * l))]] >>

RatAdd(x, y) == <<x[1] * y[2] + y[1] * x[2], x[2] * y[2]>>
RatEq(x, y) == x[1] * y[2] = y[1] * x[2]

\* the two assertions of l1_loss
L1Accepts(predicted_t, target_t) ==
    /\ predicted_t.shape = target_t.shape
    /\ Len(predicted_t.shape) = 2

\* l1_loss as it would be without the absolute value.
l1_loss_signed(predicted_t, target_t) ==
    LET diff_t == [i \in DOMAIN predicted_t.data |-> predicted_t.data[i] - target_t.data[i]]
    IN <<SeqSum(diff_t), Len(diff_t)>>

\* l1_loss: diff_t.abs().mean()
l1_loss(predicted_t, target_t) ==
    LET diff_t == [i \in DOMAIN predicted_t.data |-> predicted_t.data[i] - target_t.data[i]]
    IN <<SeqSum([i \in DOMAIN diff_t |-> Abs(diff_t[i])]), Len(diff_t)>>

LossInit ==
    /\ fl_pc = "idle"
    /\ predicted_audio = NoAudio
    /\ target_audio = NoAudio
    /\ heap = <<>>
    /\ feature_layers = 0
    /\ pred_feature_layers = 0
    /\ target_feature_layers = 0
    /\ fl_idx = 0
    /\ fl_loss = <<0, 1>>
    /\ fl_forwards = 0
    /\ fl_err = NoError

LossFrame == UNCHANGED <<trainerVars, dataVars, netVars, ckptVars, denoiseVars, evalVars, sceneVars>>

\* self.loss_net(x): a new list is allocated and stored in feature_layers;
\* lists nothing refers to any more are collected.
LossNetForward(x) ==
    LET old == IF pred_feature_layers # 0 THEN <<heap[pred_feature_layers]>> ELSE <<>>
    IN /\ heap' = Append(old, LossNetFeatures(x))
       /\ feature_layers' = Len(old) + 1
       /\ fl_forwards' = fl_forwards + 1

\* criterion(predicted_audio, target_audio)
fl_call ==
    /\ fl_pc = "idle"
    /\ \E p \in AudioTensors, t \in AudioTensors :
          /\ predicted_audio' = p
          /\ target_audio' = t
    /\ fl_pc' = "check"
    /\ UNCHANGED <<heap, feature_layers, pred_feature_layers, target_feature_layers,
                   fl_idx, fl_loss, fl_forwards, fl_err>>
    /\ LossFrame

\* __call__ has returned or raised: its locals are gone, the list the loss
\* net holds in feature_layers stays on the heap.
fl_return ==
    /\ fl_pc \in {"done", "error"}
    /\ heap' = IF feature_layers = 0 THEN <<>> ELSE <<heap[feature_layers]>>
    /\ feature_layers' = IF feature_layers = 0 THEN 0 ELSE 1
    /\ predicted_audio' = NoAudio
    /\ target_audio' = NoAudio
    /\ pred_feature_layers' = 0
    /\ target_feature_layers' = 0
    /\ fl_idx' = 0
    /\ fl_loss' = <<0, 1>>
    /\ fl_forwards' = 0
    /\ fl_err' = NoError
    /\ fl_pc' = "idle"
    /\ LossFrame

\* the two assertions on the arguments
fl_check ==
    /\ fl_pc = "check"
    /\ IF predicted_audio.shape # target_audio.shape
       THEN fl_pc' = "error" /\ fl_err' = "AssertionError: shape"
       ELSE IF Len(predicted_audio.shape) # 2
       THEN fl_pc' = "error" /\ fl_err' = "AssertionError: dimensions"
       ELSE fl_pc' = "forward_pred" /\ fl_err' = fl_err
    /\ UNCHANGED <<predicted_audio, target_audio, heap, feature_layers,
                   pred_feature_layers, target_feature_layers, fl_idx, fl_loss,
                   fl_forwards>>
    /\ LossFrame

\* _ = self.loss_net(predict_input)
fl_forward_pred ==
    /\ fl_pc = "forward_pred"
    /\ LossNetForward(View3(predicted_audio, predicted_audio.shape[1]))
    /\ fl_pc' = "capture_pred"
    /\ UNCHANGED <<predicted_audio, target_audio, pred_feature_layers,
                   target_feature_layers, fl_idx, fl_loss, fl_err>>
    /\ LossFrame

\* pred_feature_layers = self.loss_net.feature_layers
fl_capture_pred ==
    /\ fl_pc = "capture_pred"
    /\ pred_feature_layers' = feature_layers
    /\ fl_pc' = "forward_target"
    /\ UNCHANGED <<predicted_audio, target_audio, heap, feature_layers,
                   target_feature_layers, fl_idx, fl_loss, fl_forwards, fl_err>>
    /\ LossFrame

\* _ = self.loss_net(target_input)
fl_forward_target ==
    /\ fl_pc = "forward_target"
    /\ LossNetForward(View3(target_audio, predicted_audio.shape[1]))
    /\ fl_pc' = "capture_target"
    /\ UNCHANGED <<predicted_audio, target_audio, pred_feature_layers,
                   target_feature_layers, fl_idx, fl_loss, fl_err>>
    /\ LossFrame

\* target_feature_layers = self.loss_net.feature_layers; loss = tensor([0.0])
fl_capture_target ==
    /\ fl_pc = "capture_target"
    /\ target_feature_layers' = feature_layers
    /\ fl_loss' = <<0, 1>>
    /\ fl_idx' = 0
    /\ fl_pc' = "sum"
    /\ UNCHANGED <<predicted_audio, target_audio, heap, feature_layers,
                   pred_feature_layers, fl_forwards, fl_err>>
    /\ LossFrame

\* one iteration of the loop over range(len(pred_feature_layers)), or return
fl_sum ==
    /\ fl_pc = "sum"
    /\ IF fl_idx < Len(heap[pred_feature_layers])
       THEN LET predicted_feature == heap[pred_feature_layers][fl_idx + 1]
                target_feature == heap[target_feature_layers][fl_idx + 1]
            IN IF L1Accepts(predicted_feature, target_feature)
               THEN /\ fl_loss' = RatAdd(fl_loss, l1_loss(predicted_feature, target_feature))
                    /\ fl_idx' = fl_idx + 1
                    /\ UNCHANGED <<fl_pc, fl_err>>
               ELSE /\ fl_pc' = "error"
                    /\ fl_err' = "AssertionError: l1_loss"
                    /\ UNCHANGED <<fl_loss, fl_idx>>
       ELSE /\ fl_pc' = "done"
            /\ UNCHANGED <<fl_loss, fl_idx, fl_err>>
    /\ UNCHANGED <<predicted_audio, target_audio, heap, feature_layers,
                   pred_feature_layers, target_feature_layers, fl_forwards>>
    /\ LossFrame

LossNext ==
    \/ fl_call
    \/ fl_check
    \/ fl_forward_pred
    \/ fl_capture_pred
    \/ fl_forward_target
    \/ fl_capture_target
    \/ fl_sum
    \/ fl_return


(***************************************************************************)
(* training/train_denoise.py.  The script is written against names that    *)
(* are not part of the sources (SpeechDataset, SpeechDenoiseNet, SceneNet, *)
(* MovingAverage, checkpoint.save_checkpoint); parameters and gradients    *)
(* are integers, a batch is its target value.                              *)
(***************************************************************************)
MaxDenoiseBatches == 2

\* NUM_EPOCHS = 100 and CHECKPOINT_EPOCHS = 10, scaled down
NUM_EPOCHS == 3
CHECKPOINT_EPOCHS == 2

FreshParams == 0
CheckpointedParams == {1, 2}

\* the target of the i-th batch of a loader
BatchTarget(i) == i % 2

\* net(inputs)
DenoiseForward(p, i) == (p + i + 1) % 2

\* criterion(outputs, targets): the feature distance depends on the loss
\* net's parameters as well
DenoiseLoss(lp, out, tgt) == lp * Abs(out - tgt)

\* optim.AdamW as it would be if built over both networks' parameters.
OptimizerOverBoth == {"net", "loss_net"}

\* optim.AdamW(net.parameters(), ...)
OptimizerParams == {"net"}

DenoiseTrackers == [training_loss |-> NewTracker, validation_loss |-> NewTracker,
                    training_mse |-> NewTracker, validation_mse |-> NewTracker]

DenoiseInit ==
    /\ d_pc = "idle"
    /\ d_epoch = 0
    /\ d_batch = 0
    /\ d_train_len = 0
    /\ d_val_len = 0
    /\ d_has_epoch = FALSE
    /\ ckpt_params = FreshParams
    /\ net_params = FreshParams
    /\ loss_net_params = FreshParams
    /\ net_grad = 0
    /\ loss_net_grad = 0
    /\ optimizer_params = {}
    /\ d_outputs = 0
    /\ d_loss = 0
    /\ d_trackers = DenoiseTrackers
    /\ d_saved = <<>>
    /\ d_steps = 0
    /\ d_err = NoError

DenoiseFrame == UNCHANGED <<trainerVars, dataVars, netVars, ckptVars, lossVars, evalVars, sceneVars>>

\* lines 46-86: the loaders, net, loss_net loaded from its checkpoint and put
\* in eval mode, the criterion, the optimizer, the trackers
d_setup ==
    /\ d_pc = "idle"
    /\ \E tl \in 0..MaxDenoiseBatches, vl \in 0..MaxDenoiseBatches,
          cp \in CheckpointedParams, he \in BOOLEAN :
          /\ d_train_len' = tl
          /\ d_val_len' = vl
          /\ ckpt_params' = cp
          /\ loss_net_params' = cp
          /\ d_has_epoch' = he
    /\ net_params' = FreshParams
    /\ optimizer_params' = OptimizerParams
    /\ d_trackers' = DenoiseTrackers
    /\ d_pc' = "epoch"
    /\ UNCHANGED <<d_epoch, d_batch, net_grad, loss_net_grad, d_outputs, d_loss,
                   d_saved, d_steps, d_err>>
    /\ DenoiseFrame

\* for epoch in range(NUM_EPOCHS): the periodic checkpoint, net.train()
d_epoch_head ==
    /\ d_pc = "epoch"
    /\ d_epoch < NUM_EPOCHS
    /\ d_saved' = IF d_epoch % CHECKPOINT_EPOCHS = 0
                  THEN Append(d_saved, net_params) ELSE d_saved
    /\ d_batch' = 0
    /\ d_pc' = "train"
    /\ UNCHANGED <<d_epoch, d_train_len, d_val_len, d_has_epoch, ckpt_params,
                   net_params, loss_net_params, net_grad, loss_net_grad,
                   optimizer_params, d_outputs, d_loss, d_trackers, d_steps, d_err>>
    /\ DenoiseFrame

\* the next training batch: optimizer.zero_grad() clears the gradients of
\* the optimizer's parameters
d_zero_grad ==
    /\ d_pc = "train"
    /\ d_batch < d_train_len
    /\ net_grad' = IF "net" \in optimizer_params THEN 0 ELSE net_grad
    /\ loss_net_grad' = IF "loss_net" \in optimizer_params THEN 0 ELSE loss_net_grad
    /\ d_pc' = "forward"
    /\ UNCHANGED <<d_epoch, d_batch, d_train_len, d_val_len, d_has_epoch,
                   ckpt_params, net_params, loss_net_params, optimizer_params,
                   d_outputs, d_loss, d_trackers, d_saved, d_steps, d_err>>
    /\ DenoiseFrame

\* outputs = net(inputs); loss = criterion(outputs, targets)
d_forward ==
    /\ d_pc = "forward"
    /\ d_outputs' = DenoiseForward(net_params, d_batch)
    /\ d_loss' = DenoiseLoss(loss_net_params, d_outputs', BatchTarget(d_batch))
    /\ d_pc' = "backward"
    /\ UNCHANGED <<d_epoch, d_batch, d_train_len, d_val_len, d_has_epoch,
                   ckpt_params, net_params, loss_net_params, net_grad,
                   loss_net_grad, optimizer_params, d_trackers, d_saved, d_steps,
                   d_err>>
    /\ DenoiseFrame

\* loss.backward(): gradients accumulate in every parameter the loss
\* depends on, those of the loss net included
d_backward ==
    /\ d_pc = "backward"
    /\ net_grad' = net_grad + loss_net_params * (d_outputs - BatchTarget(d_batch))
    /\ loss_net_grad' = loss_net_grad + Abs(d_outputs - BatchTarget(d_batch))
    /\ d_pc' = "step"
    /\ UNCHANGED <<d_epoch, d_batch, d_train_len, d_val_len, d_has_epoch,
                   ckpt_params, net_params, loss_net_params, optimizer_params,
                   d_outputs, d_loss, d_trackers, d_saved, d_steps, d_err>>
    /\ DenoiseFrame

\* optimizer.step() and the tracking of the batch
d_step ==
    /\ d_pc = "step"
    /\ net_params' = IF "net" \in optimizer_params
                     THEN net_params - net_grad ELSE net_params
    /\ loss_net_params' = IF "loss_net" \in optimizer_params
                          THEN loss_net_params - loss_net_grad ELSE loss_net_params
    /\ d_steps' = d_steps + 1
    /\ d_trackers' = [d_trackers EXCEPT
            !.training_mse = TrackerUpdate(@, (d_outputs - BatchTarget(d_batch))
                                               * (d_outputs - BatchTarget(d_batch))),
            !.training_loss = TrackerUpdate(@, d_loss)]
    /\ d_batch' = d_batch + 1
    /\ d_pc' = "train"
    /\ UNCHANGED <<d_epoch, d_train_len, d_val_len, d_has_epoch, ckpt_params,
                   net_grad, loss_net_grad, optimizer_params, d_outputs, d_loss,
                   d_saved, d_err>>
    /\ DenoiseFrame

\* criterion.epoch() after the training batches, then net.eval()
d_criterion_epoch ==
    /\ d_pc = "train"
    /\ d_batch = d_train_len
    /\ IF d_has_epoch
       THEN d_pc' = "validate" /\ d_err' = d_err
       ELSE d_pc' = "error" /\ d_err' = [NoError EXCEPT !.kind = "AttributeError"]
    /\ d_batch' = 0
    /\ UNCHANGED <<d_epoch, d_train_len, d_val_len, d_has_epoch, ckpt_params,
                   net_params, loss_net_params, net_grad, loss_net_grad,
                   optimizer_params, d_outputs, d_loss, d_trackers, d_saved,
                   d_steps>>
    /\ DenoiseFrame

\* one validation batch under torch.no_grad()
d_validate ==
    /\ d_pc = "validate"
    /\ d_batch < d_val_len
    /\ d_outputs' = DenoiseForward(net_params, d_batch)
    /\ d_loss' = DenoiseLoss(loss_net_params, d_outputs', BatchTarget(d_batch))
    /\ d_trackers' = [d_trackers EXCEPT
            !.validation_loss = TrackerUpdate(@, d_loss'),
            !.validation_mse = TrackerUpdate(@, (d_outputs' - BatchTarget(d_batch))
                                                 * (d_outputs' - BatchTarget(d_batch)))]
    /\ d_batch' = d_batch + 1
    /\ UNCHANGED <<d_pc, d_epoch, d_train_len, d_val_len, d_has_epoch, ckpt_params,
                   net_params, loss_net_params, net_grad, loss_net_grad,
                   optimizer_params, d_saved, d_steps, d_err>>
    /\ DenoiseFrame

\* the epoch's training_info is printed; on to the next epoch
d_log ==
    /\ d_pc = "validate"
    /\ d_batch = d_val_len
    /\ d_epoch' = d_epoch + 1
    /\ d_batch' = 0
    /\ d_pc' = "epoch"
    /\ UNCHANGED <<d_train_len, d_val_len, d_has_epoch, ckpt_params, net_params,
                   loss_net_params, net_grad, loss_net_grad, optimizer_params,
                   d_outputs, d_loss, d_trackers, d_saved, d_steps, d_err>>
    /\ DenoiseFrame

\* the final checkpoint after the last epoch
d_final_save ==
    /\ d_pc = "epoch"
    /\ d_epoch = NUM_EPOCHS
    /\ d_saved' = Append(d_saved, net_params)
    /\ d_pc' = "finished"
    /\ UNCHANGED <<d_epoch, d_batch, d_train_len, d_val_len, d_has_epoch,
                   ckpt_params, net_params, loss_net_params, net_grad,
                   loss_net_grad, optimizer_params, d_outputs, d_loss, d_trackers,
                   d_steps, d_err>>
    /\ DenoiseFrame

DenoiseNext ==
    \/ d_setup
    \/ d_epoch_head
    \/ d_zero_grad
    \/ d_forward
    \/ d_backward
    \/ d_step
    \/ d_criterion_epoch
    \/ d_validate
    \/ d_log
    \/ d_final_save


(***************************************************************************)
(* datasets/speech_evaluation/evaluate.py: pad_chunk on a one-dimensional  *)
(* array, a sequence of samples.                                           *)
(***************************************************************************)
MaxSamples == 7

\* AUDIO_LENGTH = 2 ** 16 of evaluate.py, scaled down
EVAL_AUDIO_LENGTH == 3

EvalSampleVals == {0, 1}
InputArrays == UNION {[1..n -> EvalSampleVals] : n \in 0..MaxSamples}

\* the padded size as it would be if rounded up to the next multiple only
\* when the length is not one already
PadSizeRoundedUp(n) == n + ((EVAL_AUDIO_LENGTH - (n % EVAL_AUDIO_LENGTH)) % EVAL_AUDIO_LENGTH)

\* size = (arr.size - arr.size % AUDIO_LENGTH) + AUDIO_LENGTH
PadSize(n) == (n - (n % EVAL_AUDIO_LENGTH)) + EVAL_AUDIO_LENGTH

\* np.pad(arr, (0, padding)): `padding` zeros after the samples
NpPad(arr, padding) == arr \o [i \in 1..padding |-> 0]

EvalInit ==
    /\ e_pc = "idle"
    /\ input_arr = <<>>
    /\ padded_arr = <<>>

EvalFrame == UNCHANGED <<trainerVars, dataVars, netVars, ckptVars, lossVars, denoiseVars, sceneVars>>

\* sample_rate, input_arr = wavfile.read(file_path): a 1-dimensional array
read_sample ==
    /\ e_pc \in {"idle", "padded"}
    /\ \E arr \in InputArrays : input_arr' = arr
    /\ padded_arr' = <<>>
    /\ e_pc' = "read"
    /\ EvalFrame

\* input_arr = pad_chunk(input_arr)
pad_chunk ==
    /\ e_pc = "read"
    /\ LET size == PadSize(Len(input_arr))
           padding == size - Len(input_arr)
       IN padded_arr' = NpPad(input_arr, padding)
    /\ e_pc' = "padded"
    /\ UNCHANGED input_arr
    /\ EvalFrame

EvalNext ==
    \/ read_sample
    \/ pad_chunk


(***************************************************************************)
(* datasets/scenes/tut_acoustic_scenes/scene_dataset.py.  A sample is      *)
(* <<file, channel, position>>, so every chunk shows where it was cut.     *)
(***************************************************************************)
MaxSceneFiles == 2
MaxFrames == 5

\* CHUNK_SIZE = 32767, scaled down
CHUNK_SIZE == 2

CLASS_LABELS ==
    <<"bus", "car", "forest_path", "cafe/restaurant", "residential_area",
      "library", "park", "grocery_store", "city_center", "beach", "train",
      "tram", "home", "office", "metro_station">>

\* Labels a line of meta.txt may carry; "street" is no scene label.
ManifestLabels == {"bus", "metro_station", "street"}
\* A file without a line in meta.txt.
NoLine == "<no line>"
SampleRates == {16000, 44100}

\* the enumeration as it would be if it counted from 1
EnumerateLabelsFromOne == [idx \in 1..Len(CLASS_LABELS) |-> CLASS_LABELS[idx]]

\* for idx, label in enumerate(CLASS_LABELS)
EnumerateLabels == [idx \in 0..(Len(CLASS_LABELS) - 1) |-> CLASS_LABELS[idx + 1]]
InvertLabels(itl) == [label \in {itl[i] : i \in DOMAIN itl} |->
                         CHOOSE i \in DOMAIN itl :
                             itl[i] = label /\ \A j \in DOMAIN itl : itl[j] = label => j <= i]

\* one channel of file f with n frames
SceneChannel(f, c, n) == [p \in 1..n |-> <<f, c, p - 1>>]

\* input_arr[start:end]
SceneSlice(arr, start, end) == SubSeq(arr, start + 1, Min(end, Len(arr)))

\* np.split(arr, sections) for sections >= 1 that divide len(arr)
NpSplit(arr, sections) ==
    [k \in 1..sections |->
        SubSeq(arr, (k - 1) * (Len(arr) \div sections) + 1, k * (Len(arr) \div sections))]

SceneError(kind) == [NoError EXCEPT !.kind = kind]

SceneInit ==
    /\ s_pc = "idle"
    /\ wav_files = 0
    /\ label_lookup = <<>>
    /\ idx_to_label = <<>>
    /\ label_to_idx = <<>>
    /\ s_file = 0
    /\ mono_wav_arrs = <<>>
    /\ s_channel = 0
    /\ label_idx = 0
    /\ s_data = <<>>
    /\ s_data_labels = <<>>
    /\ s_read = <<>>
    /\ s_err = NoError

SceneFrame == UNCHANGED <<trainerVars, dataVars, netVars, ckptVars, lossVars,
                          denoiseVars, evalVars>>

\* lines 47-78: meta.txt is parsed, the two label maps are built, the .wav
\* files are listed
load_meta ==
    /\ s_pc = "idle"
    /\ \E n \in 0..MaxSceneFiles :
       \E manifest \in [1..n -> ManifestLabels \cup {NoLine}] :
          /\ wav_files' = n
          /\ IF \E f \in 1..n :
                    manifest[f] # NoLine /\ manifest[f] \notin {CLASS_LABELS[i] : i \in DOMAIN CLASS_LABELS}
             THEN /\ s_pc' = "error"
                  /\ s_err' = SceneError("AssertionError")
                  /\ UNCHANGED <<label_lookup, idx_to_label, label_to_idx>>
             ELSE /\ label_lookup' = [f \in {g \in 1..n : manifest[g] # NoLine} |-> manifest[f]]
                  /\ idx_to_label' = EnumerateLabels
                  /\ label_to_idx' = InvertLabels(EnumerateLabels)
                  /\ s_pc' = "files"
                  /\ UNCHANGED s_err
    /\ UNCHANGED <<s_file, mono_wav_arrs, s_channel, label_idx, s_data,
                   s_data_labels, s_read>>
    /\ SceneFrame

\* lines 80-91: the next file's label is looked up and the file is read
read_wav ==
    /\ s_pc = "files"
    /\ s_file < wav_files
    /\ LET filename == s_file + 1 IN
       IF filename \notin DOMAIN label_lookup
       THEN /\ s_pc' = "error"
            /\ s_err' = SceneError("KeyError")
            /\ UNCHANGED <<mono_wav_arrs, s_channel, label_idx, s_read>>
       ELSE \E sample_rate \in SampleRates, stereo \in BOOLEAN, frames \in 0..MaxFrames :
               IF sample_rate # 16000 \/ ~stereo
               THEN /\ s_pc' = "error"
                    /\ s_err' = SceneError("AssertionError")
                    /\ UNCHANGED <<mono_wav_arrs, s_channel, label_idx, s_read>>
               ELSE /\ label_idx' = label_to_idx[label_lookup[filename]]
                    /\ mono_wav_arrs' = <<SceneChannel(filename, 1, frames),
                                          SceneChannel(filename, 2, frames)>>
                    /\ s_channel' = 0
                    /\ s_read' = Append(s_read, [frames |-> frames,
                                                 label_idx |-> label_idx'])
                    /\ s_pc' = "split"
                    /\ UNCHANGED s_err
    /\ UNCHANGED <<wav_files, label_lookup, idx_to_label, label_to_idx, s_file,
                   s_data, s_data_labels>>
    /\ SceneFrame

\* lines 94-100 for one channel: split_even_chunks and the appends
split_even_chunks ==
    /\ s_pc = "split"
    /\ LET mono_arr == mono_wav_arrs[s_channel + 1]
           even_length == Len(mono_arr) - (Len(mono_arr) % CHUNK_SIZE)
           remainder_length == Len(mono_arr) - even_length
           num_chunks == even_length \div CHUNK_SIZE
       IN \E offset \in 0..remainder_length :
             IF num_chunks = 0
             THEN \* np.split with 0.0 sections raises
                  /\ s_pc' = "error"
                  /\ s_err' = SceneError("ZeroDivisionError")
                  /\ UNCHANGED <<s_data, s_data_labels, s_channel, s_file>>
             ELSE LET chunks == NpSplit(SceneSlice(mono_arr, offset, offset + even_length),
                                        num_chunks)
                  IN /\ s_data' = s_data \o chunks
                     /\ s_data_labels' = s_data_labels \o [k \in 1..num_chunks |-> label_idx]
                     /\ IF s_channel = 0
                        THEN s_channel' = 1 /\ UNCHANGED <<s_pc, s_file>>
                        ELSE s_channel' = 0 /\ s_pc' = "files" /\ s_file' = s_file + 1
                     /\ UNCHANGED s_err
    /\ UNCHANGED <<wav_files, label_lookup, idx_to_label, label_to_idx,
                   mono_wav_arrs, label_idx, s_read>>
    /\ SceneFrame

\* lines 102-107: SUB_SAMPLE is False; the final assertion
scene_loaded ==
    /\ s_pc = "files"
    /\ s_file = wav_files
    /\ IF Len(s_data) = Len(s_data_labels)
       THEN s_pc' = "loaded" /\ UNCHANGED s_err
       ELSE s_pc' = "error" /\ s_err' = SceneError("AssertionError")
    /\ UNCHANGED <<wav_files, label_lookup, idx_to_label, label_to_idx, s_file,
                   mono_wav_arrs, s_channel, label_idx, s_data, s_data_labels,
                   s_read>>
    /\ SceneFrame

SceneNext ==
    \/ load_meta
    \/ read_wav
    \/ split_even_chunks
    \/ scene_loaded

vars == <<trainerVars, dataVars, moreVars>>

Init == TrainerInit /\ DataInit /\ NetInit /\ CkptInit /\ LossInit /\ DenoiseInit /\ EvalInit /\ SceneInit
Next == TrainerNext
Spec == Init /\ [][Next]_vars

\* The dataset on its own: construction, then any number of accesses.
DataSpec == Init /\ [][DataNext]_vars

\* WaveUNet.forward on inputs of every length up to MaxInputLen.
NetSpec == Init /\ [][NetNext]_vars

\* Checkpoint files: saves and loads as seconds pass and training goes on.
CkptSpec == Init /\ [][CkptNext]_vars

\* AudioFeatureLoss called again and again on pairs of tensors.
LossSpec == Init /\ [][LossNext]_vars

\* One run of the denoiser training script.
DenoiseSpec == Init /\ [][DenoiseNext]_vars

\* Samples read and padded for the evaluation report.
EvalSpec == Init /\ [][EvalNext]_vars

\* One construction of a SceneDataset.
SceneSpec == Init /\ [][SceneNext]_vars

(***************************************************************************)
(* Properties of Trainer.train.                                            *)
(***************************************************************************)
TrainPhase == {"train_loop", "check_input", "check_target", "zero_grad", "forward",
               "check_output", "loss", "backward", "step", "train_metrics"}
EvalPhase == {"eval_loop", "eval_forward", "eval_metrics"}

\* The weighted sum of the registered loss terms on the current batch.
WeightedLossTotal ==
    LET f[i \in 0..Len(loss_fns)] ==
            IF i = 0 THEN 0
            ELSE f[i - 1] + loss_fns[i][2] * FnValue(loss_fns[i][1], inputs, outputs, targets)
    IN f[Len(loss_fns)]

\* C1: in every training batch the calls happen in the order zero_grad,
\* forward, loss summation, backward, optimizer step (each kind of call is at
\* most one call ahead of the next kind, and the step closes the cycle); the
\* scalar backpropagated is the weighted sum of all registered loss terms and
\* the gradient the step applies comes from this batch alone; a run of E
\* epochs of B batches that raises no error steps the optimizer E*B times.
C1_TrainStepOrder ==
    /\ ops["step"] <= ops["backward"]
    /\ ops["backward"] <= ops["loss"]
    /\ ops["loss"] <= ops["forward"]
    /\ ops["forward"] <= ops["zero_grad"]
    /\ ops["zero_grad"] <= ops["step"] + 1
    /\ (pc \in {"backward", "step"} => loss = WeightedLossTotal)
    /\ (pc = "step" => grad = loss)
    /\ (pc = "train_metrics" => ops["step"] = epoch * train_len + batch + 1)
    /\ (pc = "done" => ops["step"] = num_epochs * train_len)

C1_Witness ==
    /\ pc = "done"
    /\ num_epochs = 2 /\ train_len = 2
    /\ Len(loss_fns) = 2
    /\ ops["step"] = 4

\* C2: while train() is in the validation phase no step changes the weights
\* or the gradients and none is a zero_grad, a backward or an optimizer step;
\* when the validation phase of an epoch ends, the validation source has been
\* iterated once more (one forward pass per validation batch) and every
\* registered metric has been recomputed once per validation batch.
C2_ValidationNoUpdate ==
    [][/\ (pc \in EvalPhase =>
              /\ params' = params
              /\ grad' = grad
              /\ ops'["zero_grad"] = ops["zero_grad"]
              /\ ops'["backward"] = ops["backward"]
              /\ ops'["step"] = ops["step"])
       /\ (pc = "eval_loop" /\ pc' = "log" =>
              /\ ops["eval_forward"] = (epoch + 1) * test_len
              /\ \A i \in DOMAIN metric_fns :
                    metric_fns[i].test_tracker.n = (epoch + 1) * test_len)
      ]_vars

C2_Witness ==
    /\ pc = "log"
    /\ epoch = 1
    /\ train_len >= 1 /\ test_len = 2
    /\ Len(metric_fns) >= 1
    /\ metric_fns[1].test_tracker.n = 4
    /\ params = 2 * train_len

Last(q) == q[Len(q)]

PeriodicEpochs == {checkpoints[i].epoch : i \in {j \in DOMAIN checkpoints :
                                                   checkpoints[j].kind = "periodic"}}

C4_CheckpointAfterEpoch ==
    \A i \in DOMAIN checkpoints :
        checkpoints[i].kind = "periodic" =>
            checkpoints[i].params = (checkpoints[i].epoch + 1) * train_len

\* C4 (amended): within every epoch the order is optional periodic
\* checkpoint, then train phase, then eval phase: the eval phase of an epoch
\* starts only after all its training batches were stepped, no validation
\* batch of an epoch is evaluated during its train phase, and a periodic
\* checkpoint of an epoch is written before that epoch's train phase, so it
\* contains the weights produced by the epochs before it.
C4_CheckpointBeforeEpoch ==
    /\ \A i \in DOMAIN checkpoints :
          checkpoints[i].kind = "periodic" =>
              /\ checkpoints[i].params = checkpoints[i].epoch * train_len
              /\ checkpoints[i].epoch <= epoch
    /\ (pc \in TrainPhase =>
          /\ ops["eval_forward"] = epoch * test_len
          /\ ops["step"] \in {epoch * train_len + batch, epoch * train_len + batch + 1})
    /\ (pc \in EvalPhase \cup {"log"} =>
          /\ ops["step"] = (epoch + 1) * train_len
          /\ params = (epoch + 1) * train_len)
    /\ (pc = "log" => ops["eval_forward"] = (epoch + 1) * test_len)

C4_Witness ==
    /\ pc = "log"
    /\ epoch = 1
    /\ train_len = 2 /\ test_len >= 1
    /\ Len(checkpoints) = 2
    /\ checkpoints[2].kind = "periodic"
    /\ checkpoints[2].epoch = 1
    /\ checkpoints[2].params = 2

\* C5: on a Trainer whose setup_wandb was never called, train() never fails
\* for want of state that only setup_wandb initialises, with or without
\* setup_checkpoints.
C5_WandbOptional ==
    (~use_wandb) => ~(pc = "error" /\ err.kind = "AttributeError")

\* C6: a shape mismatch of the input, target or output of a training batch
\* against its configured expected shape ends train() with an assertion
\* failure that reports the expected and the actual shape, before the
\* optimizer step of that batch; a tensor without a configured shape is not
\* checked.
C6_ShapeMismatchAsserts ==
    /\ (pc = "error" /\ err.kind # "AttributeError" =>
          /\ err.kind = "AssertionError"
          /\ err.expected # err.got
          /\ \/ (input_shape # <<>> /\ err.expected = ExpectedShape(batch_size, input_shape)
                                    /\ err.got = inputs.shape)
             \/ (target_shape # <<>> /\ err.expected = ExpectedShape(batch_size, target_shape)
                                     /\ err.got = targets.shape)
             \/ (output_shape # <<>> /\ err.expected = ExpectedShape(batch_size, output_shape)
                                     /\ err.got = outputs.shape)
          /\ ops["step"] = epoch * train_len + batch)
    /\ (pc \in {"step", "train_metrics"} =>
          /\ (input_shape # <<>> => inputs.shape = ExpectedShape(batch_size, input_shape))
          /\ (target_shape # <<>> => targets.shape = ExpectedShape(batch_size, target_shape))
          /\ (output_shape # <<>> => outputs.shape = ExpectedShape(batch_size, output_shape)))

\* C7: a metric's train tracker is updated once per training batch and its
\* validation tracker once per validation batch, and in the mapping logged
\* for an epoch 'Training <Name>' is the train tracker's value and
\* 'Validation <Name>' the validation tracker's value.
C7_TrackersLoggedSeparately ==
    (pc = "epoch_head" /\ nLogged > 0) =>
        \A i \in DOMAIN metric_fns :
            /\ metric_fns[i].train_tracker.n = epoch * train_len
            /\ metric_fns[i].test_tracker.n = epoch * test_len
            /\ (\A j \in DOMAIN metric_fns : j > i => metric_fns[j].name # metric_fns[i].name)
                  => /\ training_info[<<"Training", metric_fns[i].name>>]
                          = TrackerValue(metric_fns[i].train_tracker)
                     /\ training_info[<<"Validation", metric_fns[i].name>>]
                          = TrackerValue(metric_fns[i].test_tracker)

(***************************************************************************)
(* Properties of NoisyLibreSpeechDataset.                                  *)
(***************************************************************************)
\* C8: every chunk subsample_chunk_random returns has exactly chunk_width
\* elements, so both chunks of every item have exactly AUDIO_LENGTH samples.
C8_ChunkWidthExact ==
    /\ (clean_chunk # <<>> => Len(clean_chunk) = AUDIO_LENGTH)
    /\ (noise_chunk # <<>> => Len(noise_chunk) = AUDIO_LENGTH)
    /\ (outcome = "returned" =>
          Len(item[1]) = AUDIO_LENGTH /\ Len(item[2]) = AUDIO_LENGTH)

\* C9: in every item __getitem__ returns, the noisy chunk is the clean chunk
\* plus a contiguous piece of a noise recording multiplied by an integer
\* gain in [1,10] and then clipped to [-1,1]; it has the length of the
\* clean chunk and differs from it by at most 1 at every position.
C9_NoisyWithinOne ==
    outcome = "returned" =>
        /\ gain \in 1..10
        /\ Len(noisy_chunk) = Len(clean_chunk)
        /\ \A i \in DOMAIN noisy_chunk :
              Abs(noisy_chunk[i] - clean_chunk[i]) <= Scale
        /\ \E n \in DOMAIN noise_data : \E ns \in 0..Len(noise_data[n]) :
              /\ ns + Len(noisy_chunk) <= Len(noise_data[n])
              /\ \A i \in DOMAIN noisy_chunk :
                    LET amplified == gain * noise_data[n][ns + i] IN
                    noisy_chunk[i] - clean_chunk[i] =
                        IF amplified > Scale THEN Scale
                        ELSE IF amplified < -Scale THEN -Scale
                        ELSE amplified

C9_Witness ==
    /\ outcome = "returned"
    /\ gain = 10
    /\ Len(clean_chunk) = AUDIO_LENGTH
    /\ \E i \in DOMAIN noisy_chunk : noisy_chunk[i] - clean_chunk[i] = Scale
    /\ \E i \in DOMAIN noisy_chunk : noisy_chunk[i] - clean_chunk[i] = -Scale

\* C10: the first element of every returned pair is the noisy chunk (the
\* input) and the second is the clean chunk (the target).
C10_InputNoisyTargetClean ==
    outcome = "returned" => (item[1] = noisy_chunk /\ item[2] = clean_chunk)

(***************************************************************************)
(* Properties of WaveUNet.forward.                                         *)
(***************************************************************************)
InputLenDivisor == Pow(2, NUM_ENCODER_LAYERS)

\* C11: an input of shape (batch, 1, L) with L a positive multiple of 2^12
\* passes every stage without a shape error and the output has shape
\* (batch, 1, L): every convolution keeps the length, encoder stage i leaves
\* L / 2^i samples after decimation, decoder stage j restores the length of
\* the skip connection it concatenates, L / 2^(11-j).
C11_OutputLengthEqualsInput ==
    (w_pc # "idle" /\ input_t[2] = 1 /\ input_t[3] % InputLenDivisor = 0) =>
        /\ w_pc # "error"
        /\ \A k \in DOMAIN skip_connections :
              skip_connections[k][3] * Pow(2, k - 1) = input_t[3]
        /\ (w_pc = "encode" => acts[3] * Pow(2, w_idx) = input_t[3])
        /\ (w_pc = "decode" =>
              acts[3] * Pow(2, NUM_ENCODER_LAYERS - w_idx) = input_t[3])
        /\ (w_pc = "done" => acts = <<input_t[1], 1, input_t[3]>>)

C11_Witness ==
    /\ w_pc = "done"
    /\ input_t = <<2, 1, 2 * InputLenDivisor>>
    /\ acts = input_t

\* C12: no input whose length is not a multiple of 2^12 produces an output;
\* for a single-channel input of such a length forward raises at the
\* concatenation of a decoder stage, where the upsampled activation and the
\* skip connection differ in length.
C12_OtherLengthsFail ==
    (w_pc # "idle" /\ input_t[3] % InputLenDivisor # 0) =>
        /\ w_pc \notin {"output", "done"}
        /\ (w_pc = "error" /\ input_t[2] = 1 =>
              /\ w_err = "cat"
              /\ w_idx < NUM_ENCODER_LAYERS
              /\ acts[3] # ReversedSkip(skip_connections, w_idx)[3])
        /\ (w_pc = "decode" /\ w_idx > 0 =>
              input_t[3] % Pow(2, NUM_ENCODER_LAYERS - w_idx) # 0)

C12_Witness ==
    /\ w_pc = "error"
    /\ w_err = "cat"
    /\ input_t = <<1, 1, InputLenDivisor - 1>>
    /\ w_idx = NUM_ENCODER_LAYERS - 1

(***************************************************************************)
(* Checkpoint files.                                                       *)
(***************************************************************************)
\* The saves that wrote to the file a load was asked for, oldest first.
SavesTo(filename) == SelectSeq(saves, LAMBDA sv : sv.filename = filename)

\* What a net computes is a function of its architecture and parameters.
NetOutput(net, x) == <<net.arch, net.params * x>>

\* C13: loading a file written by save_state_dict into a fresh model of the
\* same architecture gives a model with the parameters the saved net had
\* when the file was (last) written, so the two compute the same outputs.
\* (A step that changes `loaded` is a call of load; it reads the disk as the
\* saves so far left it.)
C13_RoundTripStep ==
    (/\ loaded' # loaded
     /\ SavesTo(loaded'.filename) # <<>>
     /\ Last(SavesTo(loaded'.filename)).fn = "save_state_dict"
     /\ loaded'.given = FreshNet(live_net.arch)) =>
        /\ loaded'.status = "ok"
        /\ loaded'.net.arch = live_net.arch
        /\ loaded'.net.params = Last(SavesTo(loaded'.filename)).params
        /\ \A x \in 0..2 :
              NetOutput(loaded'.net, x) =
                  NetOutput([live_net EXCEPT !.params = Last(SavesTo(loaded'.filename)).params], x)

C13_StateDictRoundTrip == [][C13_RoundTripStep]_vars

C13_Witness ==
    /\ loaded.status = "ok"
    /\ SavesTo(loaded.filename) # <<>>
    /\ Last(SavesTo(loaded.filename)).fn = "save_state_dict"
    /\ loaded.given = FreshNet(live_net.arch)
    /\ loaded.net.params = MaxVersion
    /\ loaded.net.params # loaded.given.params

\* C14: load of a name not ending in "full.ckpt" with no model raises the
\* AssertionError with the descriptive message before the file is read (so
\* also when the file does not exist) and returns no model; load of a
\* "full.ckpt" file that exists succeeds with no model supplied.
C14_ModelRequiredStep ==
    (loaded' # loaded /\ loaded'.given = NoNet) =>
        IF EndsWith(loaded'.filename, FULL_CKPT)
        THEN CheckpointPath(loaded'.filename) \in DOMAIN disk =>
                 /\ loaded'.status = "ok"
                 /\ loaded'.net.arch = disk[CheckpointPath(loaded'.filename)].arch
                 /\ loaded'.net.params = disk[CheckpointPath(loaded'.filename)].params
        ELSE /\ loaded'.status = "AssertionError"
             /\ loaded'.message = ModelRequired
             /\ loaded'.net = NoNet

C14_ModelRequired == [][C14_ModelRequiredStep]_vars

C14_Witness ==
    /\ loaded.status = "AssertionError"
    /\ loaded.given = NoNet
    /\ loaded.filename \in MissingFiles
    /\ CheckpointPath(loaded.filename) \notin DOMAIN disk

\* "<prefix>[-<name>]-<unix timestamp>.<suffix>", the name part present
\* exactly when the name is a non-empty string.
IsCheckpointName(filename, prefix, name, suffix) ==
    \E now \in 0..MaxClock :
        filename = prefix
                   \o (IF name \in {NoneName, <<>>} THEN <<>> ELSE <<"-">> \o name)
                   \o <<"-">> \o IntStr(now) \o <<".">> \o suffix

\* C15 (names): every file written by save is named
\* <prefix>[-<name>]-<timestamp>.full.ckpt and holds a full model, every file
\* written by save_state_dict is named <prefix>[-<name>]-<timestamp>.ckpt,
\* does not end in "full.ckpt" and holds a parameter mapping.
C15_NamesByFormat ==
    /\ \A i \in DOMAIN saves :
          /\ saves[i].path = CheckpointPath(saves[i].filename)
          /\ saves[i].path \in DOMAIN disk
          /\ IF saves[i].fn = "save"
             THEN /\ IsCheckpointName(saves[i].filename, saves[i].prefix, saves[i].name, FULL_CKPT)
                  /\ EndsWith(saves[i].filename, FULL_CKPT)
             ELSE /\ IsCheckpointName(saves[i].filename, saves[i].prefix, saves[i].name, CKPT)
                  /\ ~EndsWith(saves[i].filename, FULL_CKPT)
    /\ \A f \in DOMAIN disk :
          disk[f].kind = (IF EndsWith(f, FULL_CKPT) THEN "model" ELSE "state_dict")

\* C15 (load): a successful load of a file written by save returns the
\* stored model whatever net was supplied; a successful load of a file
\* written by save_state_dict returns the supplied net with the stored
\* parameters.
C15_LoadByFormatStep ==
    (loaded' # loaded /\ loaded'.status = "ok") =>
        LET file == disk[CheckpointPath(loaded'.filename)] IN
        IF file.kind = "model"
        THEN /\ loaded'.net.arch = file.arch
             /\ loaded'.net.params = file.params
        ELSE /\ loaded'.given # NoNet
             /\ loaded'.net.arch = loaded'.given.arch
             /\ loaded'.net.arch = file.arch
             /\ loaded'.net.params = file.params

\* C15: the checkpoint format is distinguished by the filename suffix.
C15_FormatBySuffix == [][C15_NamesByFormat' /\ C15_LoadByFormatStep]_vars

C15_Witness ==
    /\ \E i, j \in DOMAIN saves :
          /\ saves[i].fn = "save" /\ saves[i].name = <<"r">>
          /\ saves[j].fn = "save_state_dict" /\ saves[j].name \in {NoneName, <<>>}
    /\ loaded.status = "ok"
    /\ EndsWith(loaded.filename, FULL_CKPT)
    /\ loaded.given = FreshNet("SceneNet")
    /\ loaded.net.arch = "WaveUNet"

\* C16: over saves of full checkpoints that all use the same prefix and run
\* name, no save writes a path an earlier one wrote: as many files as saves.
C16_SavesNeverOverwrite ==
    (\A i, j \in DOMAIN saves :
        /\ saves[i].fn = "save"
        /\ saves[i].prefix = saves[j].prefix
        /\ saves[i].name = saves[j].name) =>
        /\ \A i, j \in DOMAIN saves : i # j => saves[i].path # saves[j].path
        /\ Cardinality(DOMAIN disk) = Len(saves)

(***************************************************************************)
(* The perceptual feature loss.                                            *)
(***************************************************************************)
\* mean(|a - b|) of two equally long element sequences, as a fraction
MeanAbsDiff(a, b) ==
    <<SeqSum([i \in DOMAIN a |-> IF a[i] >= b[i] THEN a[i] - b[i] ELSE b[i] - a[i]]), Len(a)>>

\* the sum over the first n feature tensors of the mean absolute difference
RECURSIVE FeatureDistance(_, _, _)
FeatureDistance(pf, tf, n) ==
    IF n = 0 THEN <<0, 1>>
    ELSE RatAdd(FeatureDistance(pf, tf, n - 1), MeanAbsDiff(pf[n].data, tf[n].data))

FeaturesOf(audio) == LossNetFeatures(View3(audio, audio.shape[1]))

C18_LossNetStep ==
    /\ d_pc # "idle" =>
          /\ loss_net_params = ckpt_params
          /\ loss_net_params' = loss_net_params
          /\ optimizer_params' = {"net"}
    /\ net_params' # net_params => (d_pc = "step" /\ d_steps' = d_steps + 1)
    /\ d_steps' # d_steps => (d_pc = "step" /\ d_pc' = "train")

C18_LossNetNeverUpdated == [][C18_LossNetStep]_vars

C18_Witness ==
    /\ d_pc = "finished"
    /\ d_steps = NUM_EPOCHS * MaxDenoiseBatches
    /\ loss_net_grad > 0
    /\ net_params # FreshParams
    /\ loss_net_params = ckpt_params
    /\ loss_net_params # FreshParams

(***************************************************************************)
(* The evaluation report's padding.                                        *)
(***************************************************************************)
\* C19: the array pad_chunk returns has a length that is a positive
\* multiple of AUDIO_LENGTH and at least the input's length n, starts with
\* the n input samples, and is zero from there on.
C19_PaddedToMultiple ==
    e_pc = "padded" =>
        /\ Len(padded_arr) > 0
        /\ Len(padded_arr) % EVAL_AUDIO_LENGTH = 0
        /\ Len(padded_arr) >= Len(input_arr)
        /\ \A i \in 1..Len(input_arr) : padded_arr[i] = input_arr[i]
        /\ \A i \in (Len(input_arr) + 1)..Len(padded_arr) : padded_arr[i] = 0

C19_Witness ==
    /\ e_pc = "padded"
    /\ Len(input_arr) = EVAL_AUDIO_LENGTH + 1
    /\ input_arr[Len(input_arr)] = 1
    /\ Len(padded_arr) = 2 * EVAL_AUDIO_LENGTH

(***************************************************************************)
(* The acoustic scene dataset.                                             *)
(***************************************************************************)
\* The indices in self.data of the chunks cut from channel c of file f.
ChunksOf(f, c) == {i \in DOMAIN s_data : s_data[i][1][1] = f /\ s_data[i][1][2] = c}

\* Channel c of file f has been split.
SplitDone(f, c) == f <= s_file \/ (f = s_file + 1 /\ s_pc = "split" /\ c <= s_channel)

\* C20: no recording makes split_even_chunks fail; every recording of len
\* frames yields floor(len / CHUNK_SIZE) chunks per channel, each of
\* CHUNK_SIZE contiguous samples, one chunk starting where the previous one
\* ended, the first at an offset in [0, len mod CHUNK_SIZE]; every chunk
\* carries the label index of its recording, and data and data_labels are
\* equally long.
C20_EvenChunksLabelled ==
    /\ s_err.kind # "ZeroDivisionError"
    /\ Len(s_data) = Len(s_data_labels)
    /\ \A i \in DOMAIN s_data :
          /\ Len(s_data[i]) = CHUNK_SIZE
          /\ \A j \in 1..CHUNK_SIZE :
                s_data[i][j] = <<s_data[i][1][1], s_data[i][1][2], s_data[i][1][3] + j - 1>>
          /\ s_data_labels[i] = s_read[s_data[i][1][1]].label_idx
          /\ s_data[i][CHUNK_SIZE][3] < s_read[s_data[i][1][1]].frames
    /\ \A f \in DOMAIN s_read : \A c \in 1..2 :
          SplitDone(f, c) =>
             /\ Cardinality(ChunksOf(f, c)) = s_read[f].frames \div CHUNK_SIZE
             /\ \A i \in ChunksOf(f, c) :
                   IF i - 1 \in ChunksOf(f, c)
                   THEN s_data[i][1][3] = s_data[i - 1][1][3] + CHUNK_SIZE
                   ELSE s_data[i][1][3] \in 0..(s_read[f].frames % CHUNK_SIZE)

\* C21: once the two label maps are built they are inverse to each other
\* over the 15 scene labels and the indices 0..14, and every label taken
\* from the manifest has an index.
C21_LabelMapsInverse ==
    s_pc \in {"files", "split", "loaded"} =>
        /\ Len(CLASS_LABELS) = 15
        /\ DOMAIN idx_to_label = 0..14
        /\ DOMAIN label_to_idx = {CLASS_LABELS[i] : i \in 1..15}
        /\ Cardinality(DOMAIN label_to_idx) = 15
        /\ \A l \in DOMAIN label_to_idx : idx_to_label[label_to_idx[l]] = l
        /\ \A i \in 0..14 : label_to_idx[idx_to_label[i]] = i
        /\ \A f \in DOMAIN label_lookup :
              /\ label_lookup[f] \in DOMAIN label_to_idx
              /\ label_to_idx[label_lookup[f]] \in 0..14

C21_Witness ==
    /\ s_pc = "loaded"
    /\ \E f \in DOMAIN label_lookup : label_lookup[f] = "metro_station"
    /\ \E i \in DOMAIN s_data_labels :
          s_data_labels[i] = 14 /\ idx_to_label[s_data_labels[i]] = "metro_station"

\* C22: every recording the dataset keeps has at least AUDIO_LENGTH
\* elements, and a __getitem__ that chunks kept recordings never fails the
\* length assertion of subsample_chunk_random.
C22_RetainedServable ==
    /\ \A i \in DOMAIN clean_data : Len(clean_data[i]) >= AUDIO_LENGTH
    /\ (dpc = "ready" => outcome # "AssertionError")

\* C23: for a one-channel input the channel counts fit at every stage:
\* encoder i gives i*NUM_C channels, the bottleneck 13*NUM_C; before decoder
\* j (from 0) the upsampled activation together with the skip of encoder
\* 12-j has the (2*(i+1)-1)*NUM_C channels decoder j declares, i = 12-j;
\* after the last decoder the activation with the input has NUM_C+1
\* channels, the declared input of the output layer, which gives 1 channel.
\* No convolution ever rejects its input.
C23_ChannelsConsistent ==
    (w_pc # "idle" /\ input_t[2] = 1) =>
        /\ w_err # "conv"
        /\ \A k \in DOMAIN skip_connections : skip_connections[k][2] = k * NUM_C
        /\ (w_pc \in {"encode", "middle"} /\ w_idx > 0 => acts[2] = w_idx * NUM_C)
        /\ (w_pc = "middle" => w_idx = 12 /\ Middle.in_channels = acts[2])
        /\ (w_pc = "decode" =>
               /\ acts[2] = (13 - w_idx) * NUM_C
               /\ w_idx < 12 =>
                     LET skip == ReversedSkip(skip_connections, w_idx)
                         i == 12 - w_idx
                     IN /\ skip = skip_connections[12 - w_idx]
                        /\ Upsample(acts)[2] + skip[2] = (2 * (i + 1) - 1) * NUM_C
                        /\ Decoders[w_idx + 1].in_channels = (2 * (i + 1) - 1) * NUM_C)
        /\ (w_pc = "output" =>
               /\ acts[2] = NUM_C
               /\ acts[2] + input_t[2] = NUM_C + 1
               /\ OutputLayer.in_channels = NUM_C + 1)
        /\ (w_pc = "done" => acts[2] = 1)

C23_Witness ==
    /\ w_pc = "done"
    /\ input_t = <<1, 1, InputLenDivisor>>
    /\ acts[2] = 1
    /\ Len(skip_connections) = 12
    /\ skip_connections[12][2] = 12 * NUM_C

\* pad_chunk as a function of the array
PadChunk(arr) == NpPad(arr, PadSize(Len(arr)) - Len(arr))

\* C24: pad_chunk adds fewer than AUDIO_LENGTH zeros, returns an input whose
\* length is a positive multiple of AUDIO_LENGTH with its length unchanged,
\* and padding its result again does not change the length.
C24_PadIdempotentMinimal ==
    e_pc = "padded" =>
        /\ padded_arr = PadChunk(input_arr)
        /\ Len(padded_arr) - Len(input_arr) < EVAL_AUDIO_LENGTH
        /\ (Len(input_arr) > 0 /\ Len(input_arr) % EVAL_AUDIO_LENGTH = 0
               => Len(padded_arr) = Len(input_arr))
        /\ Len(PadChunk(padded_arr)) = Len(padded_arr)

=============================================================================
